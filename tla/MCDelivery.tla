----------------------------- MODULE MCDelivery -----------------------------
(***************************************************************************)
(* Two backers: a, whose commit of 3 SOL makes two parcels, and b, whose   *)
(* 0.4 SOL makes one and falls under the strictest account rule.  Either   *)
(* nobody burns and b had a token account, or a burns half.                *)
(***************************************************************************)
EXTENDS Delivery, DeliveryTerms

CONSTANTS a, b

MCWallets == {a, b}
MCBet == (a :> 30) @@ (b :> 4)
MCBackings ==
  {[burn |-> (a :> 0) @@ (b :> 0), hadAta |-> Snapshot((a :> "unreadable") @@ (b :> "there"))],
   [burn |-> (a :> 30) @@ (b :> 0), hadAta |-> Snapshot((a :> "none") @@ (b :> "unreadable"))]}

-----------------------------------------------------------------------------
(* The terms of a delivery: amounts up to 120 and fee configs of two rates *)
(* around the change of an epoch.                                          *)

Rates(epochs) == [percent : {0, 3, 50}, max : {1, 200}, epoch : epochs]
Configs == [older : Rates({0}), newer : Rates({1, 2})]
MintsOf(configs) == [blocked : BOOLEAN, hook : BOOLEAN, fee : BOOLEAN, config : configs]
Amounts == {<<>>, <<1>>, <<120, 7>>, <<1, 2, 3, 4, 5>>, <<1, 2, 3, 4, 5, 6>>}

ASSUME DeliveriesAreRecorded ==
  \A mint \in MintsOf(Configs), seen \in 0..2, amounts \in Amounts :
    /\ \A config \in {mint.config, [mint.config EXCEPT !.newer.percent = 9, !.newer.epoch = 3]} :
         RecordedIsArrived(mint, [mint EXCEPT !.config = config], seen, seen + 1, amounts)
    /\ RecordedIsArrived(mint, mint, seen, seen, amounts)
    /\ EveryCoinIsDelivered(mint, seen, amounts)

ASSUME KeeperIsAlwaysDebited ==
  \A mint \in MintsOf(Configs), amount \in {1, 7, 120} : KeeperIsDebited(mint, 1, amount)

ASSUME DeliveryErrorsAreTold == ErrorsAreTold
=============================================================================
