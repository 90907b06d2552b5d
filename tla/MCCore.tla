------------------------------- MODULE MCCore -------------------------------
(* Small instances of CoreLifecycle for TLC.                                 *)
EXTENDS CoreLifecycle

Req(op)   == [op |-> op, wait |-> FALSE]
Job(op)   == [op |-> op, wait |-> TRUE]
Sess(requests, faults, inOrder) ==
  [requests |-> requests, faults |-> faults, inOrder |-> inOrder]

All == {
  Sess({Req("start"), Req("close"), Req("reset")}, {}, FALSE),
  Sess({Req("start"), Req("close"), Job("reset"), Req("pause"), Req("frame")}, {}, FALSE),
  Sess({Job("start"), Req("close"), Req("save")}, {}, FALSE),
  Sess({Req("start"), Req("reset"), Req("close")}, {"rom", "open"}, FALSE),
  Sess({Req("start"), Req("reset"), Req("close"), Req("pause")}, {}, TRUE),
  Sess({Req("start"), Req("close"), Job("reset")}, {"cpu"}, FALSE),
  Sess({Req("start"), Req("exit"), Job("reset"), Req("pause")}, {}, FALSE),
  Sess({Req("start"), Req("exit")}, {"rom"}, FALSE)}
=============================================================================
