------------------------------ MODULE ChainBook ------------------------------
(***************************************************************************)
(* What the live trading loop promises about the wallet's own trades: the  *)
(* ledger counts a trade the exchange has executed, never one it has not,  *)
(* and counts it once.  How the loop learns of a trade (the answer to the  *)
(* order, or a push on the user channel) is left open.                     *)
(***************************************************************************)
EXTENDS Integers

CONSTANTS
  Trade,  \* the trades the wallet's orders can produce
  Net(_)  \* the signed size of a set of trades

VARIABLES
  executed,  \* trades the exchange has matched
  book,      \* trades the ledger counts
  position   \* the ledger's net shares

bookVars == <<executed, book, position>>

BookInit == executed = {} /\ book = {} /\ position = 0

(* An order executes: some trades come into being at once.                  *)
Execute(T) ==
  /\ T \cap executed = {}
  /\ executed' = executed \cup T
  /\ UNCHANGED <<book, position>>

(* The ledger takes executed trades it has not counted yet.                 *)
Book(T) ==
  /\ T \subseteq executed \ book
  /\ book' = book \cup T
  /\ position' = position + Net(T)
  /\ UNCHANGED executed

BookNext == \E T \in (SUBSET Trade) \ {{}} : Execute(T) \/ Book(T)

BookSpec == BookInit /\ [][BookNext]_bookVars
=============================================================================
