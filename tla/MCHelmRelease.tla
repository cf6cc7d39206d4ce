---------------------------- MODULE MCHelmRelease ----------------------------
\* A small instance of HelmRelease.
EXTENDS HelmRelease, TLC

\* Both resources, and either alone, the first one in another form.
RenderedCharts ==
  {<< <<1, 0>>, <<1, 0>> >>, << <<2, 0>>, Absent >>, << Absent, <<1, 0>> >>}

Symmetry == Permutations(Processes) \cup Permutations(Requests)

\* What an uninstall that met another request leads to: without failures, and
\* until another one would meet one.
MetTwice ==
  crossed /\ \E q, r \in Requests :
    /\ q # r /\ Idle \in {op[q], op[r]} /\ Idle \notin {op'[q], op'[r]}
    /\ "uninstall" \in {op'[q].kind, op'[r].kind}

MCNext == Next /\ (crossed' => faults' = 0) /\ ~MetTwice
MCSpec == Init /\ [][MCNext]_vars
=============================================================================
