---------------------------- MODULE MCRouterTests ----------------------------
(* RouterTests for TLC. *)
EXTENDS RouterTests

Run(t, n) == [test |-> t, pairs |-> n]

\* The order of run.sh and then router_scale_2, two sizes of each that has sizes.
AllTests == <<Run("router_1", 1), Run("router_soak", 2), Run("header", 1),
              Run("router_scale", 1), Run("router_scale", 2),
              Run("router_scale_2", 1), Run("router_scale_2", 2)>>

ScaleOnly == <<Run("header", 1), Run("router_scale", 1), Run("router_scale", 2)>>
=============================================================================
