------------------------------ MODULE MCGraph -------------------------------
(* Small instances of GraphQueries for TLC.                                *)
EXTENDS GraphQueries

Threats  == [type |-> "ThreatCatalog", id |-> "T", items |-> {"t1"}, threats |-> {},
             capabilities |-> {<<"t1", "c1">>, <<"t1", "">>}, vectors |-> {<<"t1", "v1">>}]
Controls == [type |-> "ControlCatalog", id |-> "K", items |-> {"k1"},
             threats |-> {<<"k1", "t1">>}, capabilities |-> {}, vectors |-> {}]

Capabilities == [type |-> "CapabilityCatalog", id |-> "C", items |-> {"c1"}, threats |-> {},
                 capabilities |-> {}, vectors |-> {}]

Plain == [type |-> "", id |-> "", items |-> {}, threats |-> {}, capabilities |-> {}, vectors |-> {}]

Sealed(s, i, d, p, a) ==
    [subject |-> s, index |-> i, digest |-> d, publisher |-> p, sealed |-> i, artifact |-> a]

\* Two ledgers; the same content is submitted for both, by different publishers,
\* and an index is used in both.
TwoSubjects ==
    {Sealed("s1", 1, "d1", "alice", Controls), Sealed("s1", 2, "d2", "alice", Capabilities),
     Sealed("s2", 1, "d2", "bob", Capabilities)}

TwoEntries ==
    {Sealed("s1", 1, "d1", "alice", Threats), Sealed("s1", 2, "d2", "alice", Controls)}

\* Another subject's entry, of another type and date, at the first one's index.
Relabelling ==
    TwoEntries \cup {[Sealed("s2", 1, "d3", "bob", Plain) EXCEPT !.sealed = 3]}

\* Both ledgers hold different content under the same index.
SameIndex ==
    {Sealed("s1", 1, "d1", "alice", Threats), Sealed("s2", 1, "d2", "bob", Controls)}

TypesInOrder == <<"CapabilityCatalog", "ControlCatalog", "ThreatCatalog", "unknown">>
BothSubjects == {"s1", "s2"}
FirstSubject == {"s1"}
SomeLimits   == {0, NoLimit}
SomeRanges   == {Always, <<2, NoTime>>, <<NoTime, 2>>}
=============================================================================
