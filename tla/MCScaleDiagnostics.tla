-------------------------- MODULE MCScaleDiagnostics --------------------------
(***************************************************************************)
(* The notifications of the small instance: one frame of each kind, a      *)
(* damaged one, a header of a frame too long, and pieces of a weight frame *)
(* whose payload looks like a frame itself.                                *)
(***************************************************************************)
EXTENDS ScaleDiagnostics

WeightFrame == pack(Msg.EVENT, <<8, Weight, HDR1, HDR2, 0, 1, 1, 0>>)
\* Inside the header, before and inside what looks like a header in the payload,
\* and inside the checksum.
Cuts        == {1, 5, 6, 12}
Damaged     == [WeightFrame EXCEPT ![Len(WeightFrame)] = 7]
Responses   == {pack(Msg.EVENT, <<n + 1, Response, 0, 0, k>> \o [i \in 1..(n - 4) |-> 1]) :
                  n \in {6, 7, 10}, k \in {Weight, Timer}}

MCPackets == {buildTare}

\* Each builder's packet is logged as what it is.
ASSUME BuildersClassified ==
  /\ classifyOutbound(buildHeartbeat) = "Heartbeat" /\ classifyOutbound(buildTare) = "Tare"
  /\ classifyOutbound(buildIdentify) = "Identify"
  /\ classifyOutbound(buildEventSubscribe) = "Subscribe"

MCPieces ==
  {Damaged, <<HDR1, HDR2, Msg.EVENT, MaxFrame - 4>>,
   pack(Msg.EVENT, <<1>>), pack(Msg.EVENT, <<2, Battery>>), pack(Msg.EVENT, <<3, Key, 1>>),
   pack(Msg.TIMER, <<1>>), pack(Msg.SETTINGS, <<2, 0>>),
   pack(Msg.EVENT, <<12, Weight, 1, 0, 0, 0, 1, 0, Timer, 1, 2, 3>>)}
  \cup Responses
  \cup {SubSeq(WeightFrame, 1, n) : n \in Cuts \cup {Len(WeightFrame)}}
  \cup {SubSeq(WeightFrame, n + 1, Len(WeightFrame)) : n \in Cuts}

=============================================================================
