SPECIFICATION Spec
CONSTANTS
  Replicas = {r1, r2}
  Webhooks = {"w1"}
  Deliveries = {d1, d2}
  WebhookOf <- MCWebhookOf
  Tokens = {k1, k2, k3}
  NoToken = NoToken
  NoReason = NoReason
  BatchSize = 2
  MaxAttempts = 2
  RedeliverBound = 1
  MaxFaults = 0
SYMMETRY MCSymmetry
INVARIANTS TypeOK NoConcurrentSend
PROPERTIES SettledStays ImplementsClaimQueue
