------------------------------ MODULE MCReport ------------------------------
(* Report with a few databases, some of the lab track, the others of the cloud track. *)
EXTENDS Report

CONSTANT LabTargets

TrackOf == [t \in Targets |-> IF t \in LabTargets THEN "lab" ELSE "cloud"]
=============================================================================
