-------------------------- MODULE MCWebhookSender --------------------------
\* Instances of WebhookSender for TLC.  No symmetry: liveness is checked.
EXTENDS WebhookSender
=============================================================================
