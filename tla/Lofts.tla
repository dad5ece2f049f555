------------------------------- MODULE Lofts --------------------------------
(***************************************************************************)
(* What a loft promises to the clients that publish to it and drain it     *)
(* (the LoftStore trait of crates/pigeonpost-loft/src/store.rs, seen from  *)
(* outside): a mailbox that holds a message at most once, numbers what it  *)
(* takes in with ever growing cursors, and may remove what has expired.    *)
(* LoftStore implements this; the client modules are built on it.          *)
(***************************************************************************)
EXTENDS Integers, FiniteSets

CONSTANTS
    Loft,       \* relays
    Message     \* sealed messages, by id

VARIABLE box    \* events table of each loft, and its largest cursor so far

EmptyBox == [rows |-> {}, last |-> 0]

LoftsInit == box = [l \in Loft |-> EmptyBox]

InBox(l, m) == \E r \in box[l].rows : r.msg = m

\* A publish that is stored.  One that finds its message stored already is
\* answered the same and changes nothing.
TakeIn(l, m) ==
    LET c == box[l].last + 1 IN
    /\ ~InBox(l, m)
    /\ box' = [box EXCEPT ![l] =
          [rows |-> box[l].rows \cup {[cursor |-> c, msg |-> m]}, last |-> c]]

\* A retention batch.
Expire(l) ==
    \E gone \in SUBSET box[l].rows :
      /\ gone # {}
      /\ box' = [box EXCEPT ![l] =
            [rows |-> box[l].rows \ gone, last |-> box[l].last]]

LoftsNext ==
    \E l \in Loft :
      \/ \E m \in Message : TakeIn(l, m)
      \/ Expire(l)

LoftsSpec == LoftsInit /\ [][LoftsNext]_box

-----------------------------------------------------------------------------
\* The first n rows after cursor c, the answer to a fetch.
RowsAfter(l, c, n) ==
    LET later == {r \in box[l].rows : r.cursor > c} IN
    {r \in later : Cardinality({s \in later : s.cursor < r.cursor}) < n}

=============================================================================
