---------------------------- MODULE OrderLedger ----------------------------
(***************************************************************************)
(* What a merchant may rely on about one order, whoever asks and however   *)
(* the answers interleave: it is called paid only by a provider that holds *)
(* the money, every time it becomes paid it says so, it is given up only   *)
(* while it is unpaid, and a payment is overwritten only once requests     *)
(* have met.  Which request learns of the payment, and when, is left open; *)
(* so is whether money that arrives late is recorded at all.               *)
(***************************************************************************)
EXTENDS Naturals

CONSTANTS Providers, Nobody

VARIABLES
  standing,   \* what the order is called
  payer,      \* the provider that paid it, the last time it was paid
  captured,   \* the providers that hold money for it
  told,       \* how often the merchant is to be told that it is paid
  contended   \* two requests have been served at once

ledger == <<standing, payer, captured, told, contended>>

Standings == {"unpaid", "paid", "over"}

LedgerInit ==
  /\ standing = "unpaid"
  /\ payer = Nobody
  /\ captured = {}
  /\ told = 0
  /\ contended = FALSE

\* The payer may pay whatever the order is called by now.
Capture(p) ==
  /\ captured' = captured \cup {p}
  /\ UNCHANGED <<standing, payer, told, contended>>

\* Money that arrived after the order was given up still makes it paid.
Record(p) ==
  /\ standing # "paid" /\ p \in captured
  /\ standing' = "paid"
  /\ payer' = p
  /\ told' = told + 1
  /\ UNCHANGED <<captured, contended>>

Contend == contended' = TRUE /\ UNCHANGED <<standing, payer, captured, told>>

\* Closed or expired, possibly by a request that begins while another is served.
GiveUp ==
  /\ standing = "unpaid"
  /\ standing' = "over"
  /\ contended' \in {contended, TRUE}
  /\ UNCHANGED <<payer, captured, told>>

Overwrite ==
  /\ standing = "paid" /\ contended
  /\ standing' = "over"
  /\ UNCHANGED <<payer, captured, told, contended>>

LedgerNext ==
  \/ \E p \in Providers : Capture(p) \/ Record(p)
  \/ Contend \/ GiveUp \/ Overwrite

LedgerSpec == LedgerInit /\ [][LedgerNext]_ledger
=============================================================================
