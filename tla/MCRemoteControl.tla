--------------------------- MODULE MCRemoteControl -------------------------
(* Bounded instances of RemoteControl. *)
EXTENDS RemoteControl, TLC

CONSTANTS s1, s2, t1, t2

\* Where the user may drag the controls to: the stretch away, the others back
\* to where they stood.
MCPoints == {[StartValues EXCEPT !["str"] = 200]}

\* Bound: requests and uses of the panel in one behaviour that has both.
MaxTogether == 3

\* The tablets may use up MaxRequests while the user leaves the panel alone.
MCNext == Next /\ (inputs' > 0 => sent' + inputs' <= MaxTogether)

MCSpec == Init /\ [][MCNext]_vars

\* The two tablets are interchangeable, as are the two sessions; only safety is
\* checked under it.
MCSymmetry == Permutations({s1, s2}) \cup Permutations({t1, t2})
=============================================================================
