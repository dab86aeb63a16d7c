---------------------------- MODULE MCHysteria2 ----------------------------
(* A small instance of Hysteria2 for TLC.  Packets 1 and 5 fit into one frame, packets 2,
   3 and 4 have two fragments each; 3 reuses the packet id of 2 in the same session, 4
   uses it in another session. *)
EXTENDS Hysteria2

MCPkt == 1..5
MCSidOf == <<1, 1, 1, 2, 1>>
MCPidOf == <<0, 1, 1, 1, 1>>
MCTotalOf == <<1, 2, 2, 2, 1>>
FramesOf(P) == {f \in UdpFrame : f.pkt \in P}
MCWorkloads == {FramesOf({2, 3}), FramesOf({2, 4}), FramesOf({2, 5}), FramesOf({1}) \cup Req \cup Str}
=============================================================================
