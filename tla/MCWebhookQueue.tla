---------------------------- MODULE MCWebhookQueue ---------------------------
(* WebhookQueue for TLC: the dedupe keys are interchangeable.              *)
EXTENDS WebhookQueue, TLC

KeySymmetry == Permutations(Keys)
==============================================================================
