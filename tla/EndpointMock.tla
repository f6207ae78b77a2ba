---------------------------- MODULE EndpointMock ----------------------------
(***************************************************************************)
(* programs/endpoint-mock: the stand-in for the Endpoint under which the   *)
(* runtime tests drive the real OFT program.  It registers OApps, gates    *)
(* sends on their wiring, and keeps one account per authorised message,    *)
(* which clear consumes.                                                   *)
(*                                                                         *)
(* An origin is a (src_eid, sender, nonce) of ClearParams.  payload_hash is *)
(* the hash of the guid, which names the account, and of the message: two  *)
(* are equal when the messages are.  quote writes nothing.                 *)
(***************************************************************************)
EXTENDS Integers

CONSTANTS OApps,       \* OApps that may register
          Authorities, \* keys that sign
          Libraries,   \* the five *_configured flags of OAppRegistry
          Guids, Origins, Messages,
          Absent,      \* an account that does not exist
          MaxCount     \* u64::MAX of PacketCounter.count

VARIABLES
    oapp_registry,      \* [OApps -> Absent or OAppRegistry]
    packet_counter,     \* [OApps -> Absent or count]
    authorized_message  \* [OApps \X Guids -> Absent or AuthorizedMessage]

Registries == [delegate : Authorities, configured : SUBSET Libraries]

AuthorizedMessages == [origin : Origins, message : Messages, consumed : BOOLEAN]

Init ==
    /\ oapp_registry = [oapp \in OApps |-> Absent]
    /\ packet_counter = [oapp \in OApps |-> Absent]
    /\ authorized_message = [key \in OApps \X Guids |-> Absent]

register_oapp(oapp, delegate) ==
    /\ oapp_registry[oapp] = Absent
    /\ oapp_registry' = [oapp_registry EXCEPT ![oapp] =
                            [delegate |-> delegate, configured |-> {}]]
    /\ UNCHANGED <<packet_counter, authorized_message>>

\* The constraint of the accounts of every instruction that the delegate signs.
SignedByDelegate(oapp, key) ==
    oapp_registry[oapp] # Absent /\ oapp_registry[oapp].delegate = key

set_mock_config(oapp, key, configured) ==
    /\ SignedByDelegate(oapp, key)
    /\ oapp_registry' = [oapp_registry EXCEPT ![oapp].configured = configured]
    /\ UNCHANGED <<packet_counter, authorized_message>>

init_mock_packet_counter(oapp, key) ==
    /\ SignedByDelegate(oapp, key)
    /\ packet_counter[oapp] = Absent
    /\ packet_counter' = [packet_counter EXCEPT ![oapp] = 0]
    /\ UNCHANGED <<oapp_registry, authorized_message>>

Unconsumed(origin, message) ==
    [origin |-> origin, message |-> message, consumed |-> FALSE]

\* Mutated form of authorize_message: init_if_needed instead of init.
authorize_message_Again(oapp, key, guid, origin, message) ==
    /\ SignedByDelegate(oapp, key)
    /\ authorized_message' = [authorized_message EXCEPT ![<<oapp, guid>>] =
                                 Unconsumed(origin, message)]
    /\ UNCHANGED <<oapp_registry, packet_counter>>

\* The account is created, so there is at most one for a receiver and a guid.
authorize_message(oapp, key, guid, origin, message) ==
    /\ SignedByDelegate(oapp, key)
    /\ authorized_message[<<oapp, guid>>] = Absent
    /\ authorized_message' = [authorized_message EXCEPT ![<<oapp, guid>>] =
                                 Unconsumed(origin, message)]
    /\ UNCHANGED <<oapp_registry, packet_counter>>

\* MockSend: refuses an OApp whose wiring is incomplete.
send(oapp) ==
    /\ oapp_registry[oapp] # Absent
    /\ oapp_registry[oapp].configured = Libraries
    /\ packet_counter[oapp] # Absent
    /\ packet_counter[oapp] < MaxCount
    /\ packet_counter' = [packet_counter EXCEPT ![oapp] = @ + 1]
    /\ UNCHANGED <<oapp_registry, authorized_message>>

\* Mutated form of Matches: forgets that the message was consumed.
Matches_Replayed(oapp, guid, origin, message) ==
    LET authorized == authorized_message[<<oapp, guid>>]
    IN  /\ authorized # Absent
        /\ authorized.origin = origin /\ authorized.message = message

\* MockClear's requirements of the account it consumes.
Matches(oapp, guid, origin, message) ==
    authorized_message[<<oapp, guid>>] = Unconsumed(origin, message)

\* MockClear, signed by the OApp itself.
clear(oapp, guid, origin, message) ==
    /\ oapp_registry[oapp] # Absent
    /\ Matches(oapp, guid, origin, message)
    /\ authorized_message' = [authorized_message EXCEPT ![<<oapp, guid>>].consumed = TRUE]
    /\ UNCHANGED <<oapp_registry, packet_counter>>

=============================================================================
