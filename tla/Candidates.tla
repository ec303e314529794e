------------------------------ MODULE Candidates ------------------------------
(***************************************************************************)
(* The two candidate configurations of a device together: the one of the   *)
(* configure mode, which every CLI session edits (ConfigCandidate), and the *)
(* candidate datastore of NETCONF (NetconfCandidate).                       *)
(***************************************************************************)
EXTENDS ConfigCandidate, NetconfCandidate

\* Both kinds of tools at work on a device, each on its candidate.
CandidateTools == Spec /\ NcInit /\ [][NcNext]_ncVars

\* A call that says ok has done what it says: a commit in configure mode has
\* landed as the call meant it, and a NETCONF edit runs whole.
OkDelivers == CliOkDelivers /\ NcOkDelivers

\* What comes to run is what somebody meant: whole batches, on top of what
\* runs, and nothing that was answered as refused.
RunningIsMeant == CommitsAreWhole /\ EditKeepsRunning /\ RefusedStaysOut
=============================================================================
