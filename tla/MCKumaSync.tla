----------------------------- MODULE MCKumaSync -----------------------------
(* Three projects, one of them empty, and a monitor of none of them.        *)
EXTENDS KumaSync, TLC

CONSTANTS a, b, c, gone, mail, relay

MCProjects == <<<<a, b>>, <<>>, <<c>>>>

MCDefault == {mail}

MCNamed == (a :> {relay}) @@ (b :> {}) @@ (c :> {}) @@ (gone :> {})

Fine(ch) == [ok |-> TRUE, channels |-> ch]
Old(ch) == [ok |-> FALSE, channels |-> ch]

\* The monitors of an earlier run, at most one of each name: `a` as it was
\* then, `b` not yet, `c` in line or with a channel too many, `gone` left over.
MCBefore ==
    {[i \in Monitors |->
        IF i[2] # 1 \/ i[1] = b THEN Absent
        ELSE IF i[1] = a THEN old
        ELSE IF i[1] = c THEN other
        ELSE Fine({mail})] :
     old \in {Old({}), Fine({relay})}, other \in {Fine({mail}), Fine({mail, relay})}}
=============================================================================
