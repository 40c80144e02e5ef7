------------------------------ MODULE Metering ------------------------------
(* What the router owes the organisation it bills: a request consumes tokens
   until it is billed, the one bill is for all that it consumed, and nothing
   is consumed or billed after it.  The proxied response (ResponsePath) and
   the tool loop (ToolRuntime) both implement it. *)
EXTENDS Sequences

CONSTANTS Amounts,  \* what a request may have consumed
          Nothing   \* what it has consumed at first

VARIABLES used,     \* what the request has consumed
          bills     \* the billing events sent for it

Init == used = Nothing /\ bills = << >>

Consume == bills = << >> /\ used' \in Amounts /\ UNCHANGED bills

Bill == bills = << >> /\ used' \in Amounts /\ bills' = <<used'>>

Next == Consume \/ Bill

Spec == Init /\ [][Next]_<<used, bills>>
=============================================================================
