----------------------------- MODULE MCLibrary -----------------------------
(***************************************************************************)
(* Instances of Library for TLC.                                           *)
(***************************************************************************)
EXTENDS Library

PoolOf(size, count) == [size |-> size, count |-> count]

\* Three pools that fill up into one another, one pool alone, and lists that
\* are refused: none, too many, not increasing, without a buffer or a byte.
MCBufferTuples == {<<PoolOf(1, 2), PoolOf(3, 2), PoolOf(4, 1)>>, <<PoolOf(2, 1)>>,
                   << >>, <<PoolOf(1, 1), PoolOf(2, 1), PoolOf(3, 1), PoolOf(4, 1)>>,
                   <<PoolOf(2, 2), PoolOf(2, 1)>>, <<PoolOf(1, 1), PoolOf(2, 0)>>, <<PoolOf(0, 1)>>}

MCBufferSizes == -1 .. 5

\* Ranges that begin below and above 0 and end within and at the end of an int.
MCBitRanges == {<<0, 0>>, <<-2, 1>>, <<3, 7>>, <<1, 6>>, <<0, 3>>}

TLV1(length) == [type |-> OtherType, length |-> length]

\* With one short tlv a buffer of 13 bytes is full and one of 14 is not; 29
\* and 40 hold several; some lists are longer than their buffer.
MCTLVBuffers == [size : {0, 13, 14, 29, 40},
                 content : {<< >>, <<TLV1(1)>>, <<TLV1(2), TLV1(1)>>, <<TLV1(1), TLV1(0)>>}]

Object(p, o) == [acronym |-> "OBJ", parent |-> p, id |-> o, aid |-> 0, whole |-> TRUE]
Attribute(aid) == [acronym |-> "AID", parent |-> RootsParent, id |-> RootsParent,
                   aid |-> aid, whole |-> TRUE]
Short(record) == [record EXCEPT !.whole = FALSE]

\* Files with children before their parents, parents of one another, an object
\* twice, with one parent or with two, an attribute of no object, a record
\* that is cut short, and the root.
MCFirstFiles == {<<Object("a", "b"), Attribute(1), Object("root", "a"), Object("b", "c")>>,
                 <<Object("root", "a"), Attribute(1), Object("root", "a"), Short(Object("a", "b"))>>,
                 <<Object("b", "a"), Object("a", "b"), Object("root", "b")>>,
                 <<Attribute(1)>>,
                 <<Object("none", "root")>>}

\* The AVL trees of up to four objects, the least of which is put in first, as
\* the walk of Morris hands them out: the root of the tree is handed out first.
MCWalkOrders == {<<"root">>} \cup {<<"root", o>> : o \in {"a", "b", "c"}}
                  \cup {<<"a", "root", "b">>, <<"a", "root", "c">>, <<"b", "root", "c">>,
                        <<"a", "root", "b", "c">>, <<"a", "root", "c", "b">>,
                        <<"b", "root", "a", "c">>}

MCAttributeValues == {[length |-> 1, data |-> "x"]}

Pair(f, arg) == [f |-> f, arg |-> arg]

\* Two arguments of one function that are more than half the span of an int
\* apart: the comparison turns them around, and is an order still.
MCRegistrants == {Pair(1, 0), Pair(1, 6)}

\* Three arguments of which each comes before the next, and the last one before
\* the first.
MCFarRegistrants == {Pair(1, 0), Pair(1, 3), Pair(1, 6)}
=============================================================================
