SPECIFICATION FairSpec
CONSTANTS
  Replicas = {r1}
  Webhooks = {"w1"}
  Deliveries = {d1, d2}
  WebhookOf <- MCWebhookOf
  Tokens = {k1, k2, k3}
  NoToken = NoToken
  NoReason = NoReason
  BatchSize = 2
  MaxAttempts = 2
  RedeliverBound = 1
  MaxFaults = 2
PROPERTY EventuallySettled
