------------------------------ MODULE GameLoop ------------------------------
(***************************************************************************)
(* The loop of main() with the turns that never reach update_game_rooms: a *)
(* dead worker and a line that is no JSON end the turn by "continue", and  *)
(* whoever keeps the queue full of such messages keeps the games waiting.  *)
(***************************************************************************)
EXTENDS GameServerProps

VARIABLE skipped      \* flips with every turn that ends by "continue"

loopVars == <<user_table, connected, connected_user_table, game_room_table,
              next_pk_room, pending, elapsed, out, skipped>>

LoopInit == Init /\ skipped = FALSE

\* The time of the turn is not lost: prev is left alone, so that the next pass
\* is given this time too (any of Dts).
Continue == SkipPass /\ skipped' = ~skipped

\* json_parse_string answers NULL.
Unparsable ==
  /\ AtReceive
  /\ Ignored
  /\ Continue

DeadWorker == (\E w \in Workers : handle_dead_client_worker(w)) /\ Continue

Skip == Unparsable \/ DeadWorker

\* A turn without a message or with one the switch is given: it goes on to
\* update_game_rooms.
Serve ==
  /\ \/ Idle
     \/ \E w \in Workers : Account(w) \/ \E token \in Tokens : Request(w, token)
  /\ UNCHANGED skipped

Pass == update_game_rooms /\ UNCHANGED skipped

LoopNext == Skip \/ Serve \/ Pass

\* A turn that reaches update_game_rooms with time to hand on.
Timed == Serve /\ elapsed' # 0

\* main_server_quit is never set: a pass that has begun visits every room, and the
\* loop turns again.  What kind of turn comes is up to the queue; all that is assumed
\* is that the clock does not stand still for ever in turns that read it.
LoopFairness == WF_loopVars(Pass) /\ WF_loopVars(Skip \/ Timed)

LoopSpec == LoopInit /\ [][LoopNext]_loopVars /\ LoopFairness

-----------------------------------------------------------------------------
\* What must come to pass.

StartedOver(r) ==
  /\ r \in Kept
  /\ game_room_table'[r].status = "READY"
  /\ \/ game_room_table[r].status # "READY"
     \/ game_room_table'[r].timer < game_room_table[r].timer

\* A game comes to its end, whatever its players do and even if all of them are
\* gone, unless it is started over again and again, or from some time on dead
\* workers and lines that are no JSON leave no turn to update_game_rooms.  As long
\* as there is such a turn now and then, any number of them in between does not
\* matter.
GameEnds ==
  \A r \in RoomNumbers :
    \/ []<><<StartedOver(r)>>_vars
    \/ <>[][~Timed]_loopVars
    \/ InGame(r) ~> ~InGame(r)
=============================================================================
