------------------------- MODULE ConnectionContract -------------------------
(***************************************************************************)
(* What a TcpServer promises to the user callbacks: for each connection    *)
(* the connection callback is called once when the connection is up and    *)
(* once when it is down, and the message callback only in between.         *)
(***************************************************************************)
EXTENDS Naturals, Sequences

CONSTANT Conn

VARIABLES calls,          \* per connection: the connection callbacks so far
          asked           \* per connection: the number of message callbacks

contractVars == <<calls, asked>>

ContractInit == /\ calls = [c \in Conn |-> << >>]
                /\ asked = [c \in Conn |-> 0]

Up(c) == /\ calls[c] = << >>
         /\ calls' = [calls EXCEPT ![c] = <<"up">>]
         /\ UNCHANGED asked

Message(c) == /\ calls[c] = <<"up">>
              /\ asked' = [asked EXCEPT ![c] = @ + 1]
              /\ UNCHANGED calls

Down(c) == /\ calls[c] = <<"up">>
           /\ calls' = [calls EXCEPT ![c] = <<"up", "down">>]
           /\ UNCHANGED asked

ContractNext == \E c \in Conn : Up(c) \/ Message(c) \/ Down(c)

ContractSpec == ContractInit /\ [][ContractNext]_contractVars
=============================================================================
