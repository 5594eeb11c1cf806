---------------------------- MODULE MCDeviceSync ----------------------------
(* Small instances of DeviceSync for TLC. *)
EXTENDS DeviceSync, TLC

\* Devices, animes and request slots are interchangeable.
Symmetry == Permutations(Devices) \cup Permutations(Animes) \cup Permutations(Requests)

\* Two slices of one instance: two devices with one anime and one reconcile at a time,
\* over HTTP, and two animes and two reconciles of one device.
Known == paired \cup pairing \cup revoking \cup {d \in Devices : status[d] # "none"}
Written == existing \cup {a \in Animes : \E r \in changelog : r.anime = a}
Slices ==
  \/ Cardinality(Known) <= 1
  \/ Cardinality(Written) <= 1 /\ Cardinality(Running) <= 1 /\ sockets = {}

=============================================================================
