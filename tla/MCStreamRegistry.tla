-------------------------- MODULE MCStreamRegistry --------------------------
(***************************************************************************)
(* Small instances of StreamRegistry for TLC.                              *)
(***************************************************************************)
EXTENDS StreamRegistry, TLC

CONSTANTS s1, s2, s3, r1, r2

(***************************************************************************)
(* Two streams and a replica that dies; and one stream with what           *)
(* administrators do, with one thing they do and a call that fails, or     *)
(* with a replica that dies and a call that fails.                         *)
(***************************************************************************)
OneStream == \A s \in Sessions : host[s] = r1

\* Replicas are alike: the first stream is on the first of them.
TwoStreams == host[s1] = r1

MixedInit ==
  \/ RegistryBegins({}, MaxChanges, 0, MaxFailures) /\ TwoStreams
  \/ RegistryBegins({s2}, 0, MaxDeaths, MaxFailures) /\ OneStream
  \/ RegistryBegins({s2}, MaxChanges - 1, MaxDeaths, 0) /\ OneStream
  \/ RegistryBegins({s2}, MaxChanges, 0, 0) /\ OneStream

MixedSpec == MixedInit /\ [][Next]_vars /\ Fairness
=============================================================================
