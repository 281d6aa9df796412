---------------------------- MODULE MCWsManager -----------------------------
(* Small instances of WsManager for TLC. *)
EXTENDS WsManager, TLC

CONSTANTS c1, c2, c3, a1, a2, i1, i2

\* Two clients of one address from one IP, and one of another address that
\* shares the IP of the first.
MCAddressOf == c1 :> a1 @@ c2 :> a1 @@ c3 :> a2
MCIpOf == c1 :> i1 @@ c2 :> i2 @@ c3 :> i1

=============================================================================
