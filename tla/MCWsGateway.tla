----------------------------- MODULE MCWsGateway -----------------------------
(***************************************************************************)
(* One subject with more sockets than the limit (2 stands for 5), a second *)
(* subject in the same room and a third one in the room of another tenant; *)
(* or, in MCOneSub, all sockets of one subject.                            *)
(***************************************************************************)
EXTENDS WsGateway, TLC

CONSTANTS s1, s2, s3, s4, s5, u1, u2, u3, ta, tb

MCSubOf == s1 :> u1 @@ s2 :> u1 @@ s3 :> u1 @@ s4 :> u2 @@ s5 :> u3
MCOneSub == [s \in Socket |-> u1]

MCTenantOf == [s \in Socket |-> IF s = s5 THEN tb ELSE ta]

=============================================================================
