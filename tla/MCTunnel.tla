------------------------------ MODULE MCTunnel ------------------------------
(***************************************************************************)
(* A small instance of Tunnel: a destination by name and one by IP, a      *)
(* payload of two bytes, and a cipher whose blocks and counter words are   *)
(* so short that a stream crosses several blocks and both words overflow.  *)
(***************************************************************************)
EXTENDS Tunnel

MCAddresses ==
    {[type |-> HOST, host |-> <<97, 98>>, port |-> <<0, 80>>],
     [type |-> IPV4, host |-> <<1, 2, 3, 4>>, port |-> <<0, 56>>]}

MCPayload == <<71, 69>>
=============================================================================
