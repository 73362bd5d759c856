-------------------------- MODULE MCWebhookDelivery ---------------------------
(* Instances of WebhookDelivery for TLC.                                   *)
EXTENDS WebhookDelivery, TLC

CONSTANTS e1, s3

\* The third subscription's secret does not decrypt.
BadSecret == {<<e1, s3>>}
==============================================================================
