-------------------------- MODULE MCAlertDelivery --------------------------
(* Small instances of AlertDelivery.  Alerts and hooks are numbers so that  *)
(* the queue_id order can be computed from the item; the order puts newer   *)
(* versions first, which leaves older rows behind the candidate limit.      *)
EXTENDS AlertDelivery, TLC

MCQueueOrder(i) == 100 * (MaxStamp - i.seen) + 10 * i.alert + i.hook
=============================================================================
