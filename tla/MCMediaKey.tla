----------------------------- MODULE MCMediaKey -----------------------------
EXTENDS MediaKey, SequencesExt

MCDevices == {[node |-> d, keys |-> SetToSeq(LabelsOf(d))] : d \in Leaves}

Disjoint(a, b) == \A d \in Leaves : ~(Covered(a, d) /\ Covered(b, d))

Mkb(entries, holds, vmk, short) ==
    [entries |-> entries,
     data |-> DataOf(entries, holds, Len(entries) - short),
     holds |-> holds, vmk |-> vmk]
Call(call, kcd, legacy) == [call |-> call, kcd |-> kcd, legacy |-> legacy]

\* One entry with everything that can vary around it; covers of two disjoint
\* entries, with a padding entry behind them.
MCCases ==
    {m @@ c :
        m \in {Mkb(<<s>>, holds, vmk, short) :
                  s \in Subsets, holds \in {Km, Kmp}, vmk \in BOOLEAN, short \in {0, 1}},
        c \in {Call("plain", None, TRUE), Call("plain", None, FALSE),
               Call("with_kcd", None, FALSE), Call("with_kcd", Kcd, FALSE),
               Call("with_kcd", Garbled, FALSE), Call("resolve", Kcd, FALSE),
               Call("resolve", Garbled, FALSE)}}
    \cup
    {Mkb(<<p[1], p[2], Padding>>, Kmp, TRUE, 0) @@ Call("with_kcd", Kcd, FALSE) :
        p \in {q \in Subsets \X Subsets : Disjoint(q[1], q[2])}}
=============================================================================
