------------------------------ MODULE MCMovie ------------------------------
(* Small instances of Movie for TLC.                                        *)
EXTENDS Movie

\* A movie of four inputs recorded from power-on, or from a snapshot.
Recorded == [uid |-> 1, start |-> "reset", origin |-> Boot,
             inputs |-> <<"a", "b", "a", "b">>]
Snapshot == [Recorded EXCEPT !.start = "snapshot", !.origin = <<"stray", "1">>]

Session(file, interval, requests) ==
  [file |-> file, interval |-> interval, requests |-> requests]

\* The user waits for a start, a reset or a seek to end.
AllButStops == Requests \ {"seek", "stopSeek", "readonly", "reset", "warp", "pause"}

All == {
  Session(NoMovie,  2, {"recordReset", "save", "load", "readonly", "stop"}),
  Session(NoMovie,  2, {"recordSnapshot", "save", "load"}),
  Session(Snapshot, 2, {"recordExisting", "stop"}),
  Session(Recorded, 2, {"play", "load", "save", "readonly"}),
  Session(Recorded, 2, {"play", "seek", "readonly"}),
  Session(Recorded, 0, {"play", "seek"}),
  Session(Snapshot, 0, {"play", "seek"}),
  Session(Snapshot, 2, {"play", "stop", "recordReset"}),
  Session(NoMovie,  2, {"recordReset", "seek", "stopSeek"}),
  Session(NoMovie,  2, {"recordReset", "reset"}),
  Session(NoMovie,  2, {"recordReset", "warp", "pause"})}

\* The same movie where there is one key.
OneKey(movie) == [movie EXCEPT !.inputs = <<"a", "a", "a", "a">>]

Waits == {
  Session(OneKey(Recorded), 2, {"play", "seek", "stopSeek"}),
  Session(OneKey(Snapshot), 0, {"play", "seek"}),
  Session(NoMovie,  2, {"recordReset", "seek"}),
  Session(NoMovie,  2, {"recordReset", "reset"}),
  Session(NoMovie,  2, {"recordReset", "warp", "pause"})}

Tasks  == {Session(NoMovie,  2, {"recordReset", "save", "load"})}
Stops  == {Session(NoMovie,  2, {"recordReset", "stop"})}
Resets == {Session(NoMovie,  2, {"recordReset", "reset"})}
=============================================================================
