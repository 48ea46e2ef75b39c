--------------------------- MODULE MCAlertDelivery ---------------------------
(***************************************************************************)
(* TLC instance of AlertDelivery: the first alert belongs to a Free user   *)
(* with a Telegram bot and a webhook, the second to a paid user who has    *)
(* configured no channel.                                                  *)
(***************************************************************************)
EXTENDS AlertDelivery

CONSTANTS telegram, webhook

BothChannels == {telegram, webhook}
ConfiguredChannels ==
  [a \in 1..NumAlerts |->
     IF a = 1 THEN {telegram, webhook} ELSE {}]
FirstDelayed == {1}
=============================================================================
