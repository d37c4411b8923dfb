--------------------------- MODULE MCMirrorIngest ---------------------------
(***************************************************************************)
(* Instances of MirrorIngest: one publisher that finalizes three ticks, or *)
(* two, of which the second is faulty (in MCStreams).  A page is one       *)
(* update.                                                                 *)
(***************************************************************************)
EXTENDS MirrorIngest

CONSTANTS s1, s2, h1, h2

\* One tick with two certified headers.
OneConflict == {[tick |-> t, header |-> h1] : t \in Tick} \cup {[tick |-> 1, header |-> h2]}

NoConflict == {[tick |-> t, header |-> h1] : t \in Tick}

\* Everything, or nothing while the committee is paused.
PausedOrNot == {{}, Certified}

AlwaysAll == {Certified}

=============================================================================
