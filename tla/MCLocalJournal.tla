-------------------------- MODULE MCLocalJournal --------------------------
(* Small instances of LocalJournal: one stream, two processes, requests that depend on each    *)
(* other through sequence, idempotency key, evidence and graph version.                        *)
EXTENDS LocalJournal

CONSTANTS serve, cli, s, e1, e2, k1, k2

\* The first batch brings e1 and publishes version 1.
First == [stream |-> s, expected |-> 1, keys |-> {k1}, evidence |-> {e1}, refs |-> {e1},
          version |-> 1]
\* The second refers to evidence an earlier batch registered and brings its own, an orphan blob
\* whenever its append fails after publishing.
Second == [stream |-> s, expected |-> 2, keys |-> {k2}, evidence |-> {e2}, refs |-> {e1, e2},
           version |-> 2]
\* The same key as First with another digest: an idempotency conflict once First is recorded.
Clash == [stream |-> s, expected |-> 2, keys |-> {k1, k2}, evidence |-> {}, refs |-> {},
          version |-> 0]

MCProcs == {serve, cli}
MCStreams == {s}
MCEvidence == {e1, e2}
Contended == {First, Second, Clash}
==========================================================================
