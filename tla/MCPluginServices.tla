-------------------------- MODULE MCPluginServices --------------------------
(***************************************************************************)
(* Instances of PluginServices, and with it of Registry, for TLC.          *)
(***************************************************************************)
EXTENDS PluginServices, FiniteSets

CONSTANTS s1, i1, both, remoteOnly, r1, r2

const_Services == {s1}
const_Impls == {i1}
const_Remote == {both, remoteOnly}
const_Local == {both}
const_Keys == {both, remoteOnly} \cup ({s1} \X {i1})

\* Bound: registrations so far and reloads under way, together.  The second reload is
\* there to overlap the first and runs before the manager has anything to do; probes,
\* which share nothing with reloads, do not run beside them.
Active == {r \in Reloads : reload[r].at # "idle"}
FewAtOnce ==
    /\ last + Cardinality(Active) <= 2
    /\ r2 \in Active => last = 0 /\ loop = Resting
    /\ Active # {} => loop.at \notin {"health", "check"}
=============================================================================
