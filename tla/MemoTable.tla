----------------------------- MODULE MemoTable -----------------------------
(***************************************************************************)
(* What the registry of trampolines promises those who build proxies: a    *)
(* table from shapes to codes in which a shape, once it has a code, keeps  *)
(* it, and no two shapes share one.  A request is answered at once, with   *)
(* the shape's code; one that fails leaves no trace.                       *)
(***************************************************************************)
EXTENDS Sequences

CONSTANTS Clients, Shapes, Codes

VARIABLES
  table,   \* shape to code, for the shapes that have one
  held     \* each client's answers so far: pairs of a shape and its code

Init == table = <<>> /\ held = [c \in Clients |-> <<>>]

Give(c, sh, code) == held' = [held EXCEPT ![c] = Append(@, <<sh, code>>)]

Hit(c, sh) ==
  /\ sh \in DOMAIN table
  /\ Give(c, sh, table[sh])
  /\ UNCHANGED table

Make(c, sh) ==
  /\ sh \notin DOMAIN table
  /\ \E code \in Codes :
       /\ \A s \in DOMAIN table : table[s] # code
       /\ table' = [s \in DOMAIN table \cup {sh} |-> IF s = sh THEN code ELSE table[s]]
       /\ Give(c, sh, code)

Drop(c) == held' = [held EXCEPT ![c] = <<>>] /\ UNCHANGED table

Next == \E c \in Clients : Drop(c) \/ \E sh \in Shapes : Hit(c, sh) \/ Make(c, sh)

Spec == Init /\ [][Next]_<<table, held>>
=============================================================================
