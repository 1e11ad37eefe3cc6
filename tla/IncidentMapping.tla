----------------------------- MODULE IncidentMapping -----------------------------
(***************************************************************************)
(* How the signals of a hypothesis become an incident to simulate          *)
(* (backend/verine/analysis/mapping.py) and, where they hit nodes with a   *)
(* common dependency, candidates for edges nobody declared                 *)
(* (graph/shadow.py).                                                      *)
(*                                                                         *)
(* A signal [operational, severity, latency, matches] says whether its     *)
(* type is one that is simulated, what its severity word stands for,       *)
(* whether its text speaks of latency, and which nodes it was resolved to. *)
(***************************************************************************)
EXTENDS DependencyGraph, Sequences, SequencesExt

CONSTANTS
    LatencyShare,   \* stress of a latency incident: share of its severity
    Geographies     \* nodes that are places

ASSUME MappingAssumption ==
    LatencyShare \in Fractions /\ Geographies \subseteq Nodes

SignalRecords == [operational : BOOLEAN, severity : Fractions, latency : BOOLEAN,
                  matches : SUBSET Nodes]

Component(n, s) == [target |-> n, severity |-> s.severity, latency |-> s.latency]

\* The signal that came last.
MappedLatest(components, s) ==
    LET taken == IF s.operational THEN s.matches ELSE {}
    IN  {c \in components : c.target \notin taken} \cup {Component(n, s) : n \in taken}

\* One more signal: it takes over the nodes that have no component as severe as it.
Mapped(components, s) ==
    LET taken == {n \in s.matches :
                     /\ s.operational
                     /\ \A c \in components : c.target = n => c.severity < s.severity}
    IN  {c \in components : c.target \notin taken} \cup {Component(n, s) : n \in taken}

Components(signals) == FoldLeft(Mapped, {}, signals)

\* What is shown next to a simulation and not simulated.
Context(signals) ==
    {k \in DOMAIN signals : ~ signals[k].operational \/ signals[k].matches = {}}

\* The direct stress on every node.
Stress(components) ==
    [n \in Nodes |->
        Most({IF c.latency THEN Times(c.severity, LatencyShare) ELSE c.severity :
                 c \in {d \in components : d.target = n}})]
-------------------------------------------------------------------------------
(* Shadow edges *)

Declared(edges, n) == {e.to : e \in Dependencies(edges, n)}

Observed(observed, from, to) == \E e \in observed : e.from = from /\ e.to = to

\* The common dependency of two nodes that comes first.
Common(edges, a, b) == CHOOSE n \in Declared(edges, a) \cap Declared(edges, b) : TRUE

\* Two nodes hit within one hypothesis that declare a common dependency: both may
\* share it in a way nobody observed.  observed are the edges that are not inferred.
Shadows(edges, observed, matched) ==
    LET hit     == matched \ Geographies
        sharing == {p \in hit \X hit :
                      p[1] # p[2] /\ Declared(edges, p[1]) \cap Declared(edges, p[2]) # {}}
    IN  UNION {{[from |-> n, to |-> Common(edges, p[1], p[2])] :
                  n \in {m \in {p[1], p[2]} :
                            ~ Observed(observed, m, Common(edges, p[1], p[2]))}} :
               p \in sharing}
-------------------------------------------------------------------------------
(* Properties *)

Matched(signals) == UNION {s.matches : s \in ToSet(signals)}

\* Every node has the component of the most severe operational signal that was
\* resolved to it, the first of equals, in whatever order the others came.
StrongestWins(signals) ==
    LET hits(n) == {k \in DOMAIN signals : signals[k].operational /\ n \in signals[k].matches}
        wins(k, n) == \A j \in hits(n) : signals[j].severity <= signals[k].severity
    IN  Components(signals) =
          {Component(n, signals[Min({k \in hits(n) : wins(k, n)})]) :
              n \in {m \in Nodes : hits(m) # {}}}

\* A signal is shown as context, or every node it was resolved to is simulated at
\* least as severely.
NothingDropped(signals) ==
    \A k \in DOMAIN signals \ Context(signals) : \A n \in signals[k].matches :
        \E c \in Components(signals) : c.target = n /\ c.severity >= signals[k].severity

\* A candidate edge rests on two matched nodes that declare its target, and not on an
\* edge that is observed.
SharedOnly(edges, observed, signals) ==
    \A s \in Shadows(edges, observed, Matched(signals)) :
        /\ \E n \in Matched(signals) \ {s.from} : s.to \in Declared(edges, n)
        /\ s.to \in Declared(edges, s.from) /\ ~ Observed(observed, s.from, s.to)
=============================================================================
