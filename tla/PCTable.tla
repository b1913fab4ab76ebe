------------------------------ MODULE PCTable ------------------------------
(***************************************************************************)
(* The table that tells the runtime, for each program counter of a         *)
(* trampoline, how far the stack pointer is from where it was at the       *)
(* function's entry: encodePCSP (jit.go) writes it, the runtime's pcvalue  *)
(* and step, which are not part of this repository, read it.               *)
(***************************************************************************)
EXTENDS Integers, Sequences

\* a 32-bit number in groups of seven bits, as many as it takes, the lowest
\* first, all but the last marked
Groups(u) == CHOOSE n \in 1..5 : u < 128^n /\ (n = 1 \/ u >= 128^(n - 1))
Varint(u) ==
  [i \in 1..Groups(u) |-> ((u \div 128^(i - 1)) % 128) + (IF i < Groups(u) THEN 128 ELSE 0)]

\* n<<1 ^ n>>31
ZigZag(n) == IF n >= 0 THEN 2 * n ELSE -2 * n - 1

\* an entry after one with value val, up to pc
EncodeEntry(e, val, pc) == Varint(ZigZag(e.spdelta - val)) \o Varint(e.pc - pc)

\* entries: each spdelta with the program counter up to which it holds
EncodedPairs(entries) ==
  [i \in DOMAIN entries |->
     IF i = 1 THEN EncodeEntry(entries[1], -1, 0)
     ELSE EncodeEntry(entries[i], entries[i - 1].spdelta, entries[i - 1].pc)]

-----------------------------------------------------------------------------
(* the runtime *)

UnZigZag(u) == IF u % 2 = 0 THEN u \div 2 ELSE -(u \div 2) - 1

\* readvarint: the number written in tab at position at, and where it ends
ReadVarint(tab, at) ==
  LET last == CHOOSE i \in at..Len(tab) :
                tab[i] < 128 /\ \A j \in at..i - 1 : tab[j] >= 128
      value[i \in at..last] == (tab[i] % 128) + (IF i = last THEN 0 ELSE 128 * value[i + 1])
  IN [n |-> value[at], next |-> last + 1]

\* step: the next pair of tab.  The first may be a zero delta, any other zero
\* ends the table.  The deltas of the program counter count instructions of
\* quantum bytes.
NoValue == -1
Step(tab, quantum, pc, c) ==
  LET uv == ReadVarint(tab, c.at)
      pd == ReadVarint(tab, uv.next)
      end == c.pc + pd.n * quantum
  IN IF c.done THEN c
     ELSE IF uv.n = 0 /\ c.pc # 0 THEN [c EXCEPT !.val = NoValue, !.done = TRUE]
     ELSE [at |-> pd.next, pc |-> end, val |-> c.val + UnZigZag(uv.n), done |-> pc < end]

\* pcvalue: the value of the range that reaches past pc.  A table has fewer
\* pairs than bytes.  NoValue: it ends before pc, where the runtime throws.
ReadPCValue(tab, quantum, pc) ==
  LET after[k \in 0..Len(tab)] ==
        IF k = 0 THEN [at |-> 1, pc |-> 0, val |-> -1, done |-> FALSE]
        ELSE Step(tab, quantum, pc, after[k - 1])
  IN after[Len(tab)].val
=============================================================================
