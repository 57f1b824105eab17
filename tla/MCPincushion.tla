---------------------------- MODULE MCPincushion ----------------------------
(***************************************************************************)
(* Small instances of Pincushion: two connections and a table of three or  *)
(* four slots, so that it fills up, wraps and drops pins.                  *)
(***************************************************************************)
EXTENDS Pincushion, TLC

CONSTANTS h1, h2

Connections == Permutations({h1, h2})

\* Free slots keep what was in them, and nothing reads it or last_ref; where
\* the entries start in the circle does not matter to later steps either.
LiveTable ==
    <<[i \in Entries(pt) |-> At(pt, i)], pt.pendingUnpins, pt.unpinInFlight,
      pt.writable, pt.panic, ref, client, chan, db, batch, clock, lost>>
=============================================================================
