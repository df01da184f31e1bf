------------------------------ MODULE MCCodec -------------------------------
EXTENDS Codec

Zeros(n) == [i \in 1..n |-> 0]

\* Property lists: empty, of each type, and of lengths around the limits of one, two
\* and three digits (2, 3, 8, 9, 26 and 27 bytes).
PropertyLists ==
    { <<>>,
      <<[id |-> 1, value |-> 7]>>,
      <<[id |-> 2, value |-> 63]>>,
      <<[id |-> 1, value |-> 1], [id |-> 3, value |-> 2047]>>,
      <<[id |-> 3, value |-> 4095], [id |-> 3, value |-> 2048], [id |-> 1, value |-> 5]>>,
      <<[id |-> 4, value |-> 2], [id |-> 4, value |-> 8], [id |-> 4, value |-> 9]>>,
      <<[id |-> 4, value |-> 26], [id |-> 4, value |-> 27]>>,
      <<[id |-> 5, value |-> <<<<6, 7>>>>], [id |-> 2, value |-> 8]>>,
      <<[id |-> 6, value |-> <<<<1>>, <<>>>>], [id |-> 1, value |-> 0]>>,
      <<[id |-> 5, value |-> <<Zeros(23)>>]>>,
      <<[id |-> 5, value |-> <<Zeros(24)>>]>> }

Publish(qos, id, topic, props, payload) ==
    [Blank EXCEPT !.type = "PUBLISH", !.qos = qos, !.msgId = id, !.strings = <<topic>>,
                  !.props = props, !.data = payload]

\* Payloads that make bodies of 8, 9, 26, 27, 80 and 81 bytes in MQTT 3; 81 is too long.
Publishes ==
    {Publish(0, 0, <<1>>, <<>>, Zeros(n)) : n \in {5, 6, 23, 24, 77, 78}}
        \union {Publish(1, 63, <<5, 0>>, props, <<3, 0>>) : props \in PropertyLists}

Answers ==
    {[Blank EXCEPT !.type = type, !.msgId = 9, !.long = 0] : type \in {"PUBREC", "PUBCOMP"}}
        \union {[Blank EXCEPT !.type = "PUBACK", !.msgId = 8, !.rc = 7, !.long = 1],
                [Blank EXCEPT !.type = "PUBREL", !.qos = 1, !.msgId = 8, !.rc = 4, !.long = 2,
                              !.props = <<[id |-> 5, value |-> <<<<2, 2>>>>]>>],
                [Blank EXCEPT !.type = "CONNACK", !.data = <<1>>, !.rc = 0, !.long = 2,
                              !.props = <<[id |-> 2, value |-> 20]>>],
                [Blank EXCEPT !.type = "CONNACK", !.data = <<0>>, !.rc = 5],
                [Blank EXCEPT !.type = "SUBACK", !.msgId = 2, !.data = <<1, 2>>],
                [Blank EXCEPT !.type = "UNSUBACK", !.msgId = 3, !.data = <<0>>],
                [Blank EXCEPT !.type = "PINGRESP"],
                [Blank EXCEPT !.type = "DISCONNECT"],
                [Blank EXCEPT !.type = "DISCONNECT", !.rc = 6, !.long = 1],
                [Blank EXCEPT !.type = "DISCONNECT", !.rc = 6, !.long = 2,
                              !.props = <<[id |-> 6, value |-> <<<<1>>, <<2>>>>]>>]}

Requests ==
    {[Blank EXCEPT !.type = "CONNECT", !.msgId = 20, !.strings = <<<<1, 2>>>>, !.props = props,
                   !.will = will, !.username = user, !.password = user] :
        props \in {<<>>, <<[id |-> 3, value |-> 100]>>}, will \in {<<>>, <<<<4>>, <<>>>>},
        user \in {<<>>, <<<<3, 3>>>>}}
    \union {[Blank EXCEPT !.type = type, !.qos = 1, !.msgId = 4, !.strings = topics,
                          !.props = <<[id |-> 4, value |-> 9]>>] :
        type \in {"SUBSCRIBE", "UNSUBSCRIBE"}, topics \in {<<<<1>>>>, <<<<1>>, <<2, 2>>>>}}

\* Bodies that are too short for their type.
Malformed ==
    {[Blank EXCEPT !.type = "SUBACK", !.raw = TRUE, !.data = <<0, 2>>],
     [Blank EXCEPT !.type = "PUBACK", !.raw = TRUE, !.data = <<1>>],
     [Blank EXCEPT !.type = "CONNACK", !.raw = TRUE, !.data = <<0>>],
     [Blank EXCEPT !.type = "PUBLISH", !.raw = TRUE, !.data = <<0, 3, 1>>],
     [Blank EXCEPT !.type = "PUBLISH", !.qos = 1, !.raw = TRUE, !.data = <<0, 1, 1, 0>>]}

\* Acknowledgements whose properties end too early: a byte without its value, a number
\* without an end, in a list that is one byte too short for it and in one that is not,
\* and a list of which only the length is there.
Cut ==
    {[Blank EXCEPT !.type = "PUBACK", !.raw = TRUE, !.data = <<1, 0, 7>> \o props] :
        props \in {<<2, 1>>, <<5, 1, 4, 3, 3, 3, 3>>, <<3, 2, 4, 3, 3, 3, 3, 3>>, <<2>>, <<4>>}}

MCStray == Zeros(5)

MCPackets == Publishes \union Answers \union Requests \union Malformed \union Cut
MCFollowers ==
    {Publish(1, 63, <<5, 0>>, <<[id |-> 1, value |-> 7]>>, <<3, 0>>),
     [Blank EXCEPT !.type = "PUBCOMP", !.msgId = 9],
     [Blank EXCEPT !.type = "SUBACK", !.msgId = 2, !.data = <<1, 2>>],
     [Blank EXCEPT !.type = "DISCONNECT", !.rc = 6, !.long = 1],
     [Blank EXCEPT !.type = "CONNECT", !.msgId = 20, !.strings = <<<<1>>>>],
     [Blank EXCEPT !.type = "PINGRESP"]}
=============================================================================
