------------------------------ MODULE MCSocket ------------------------------
(* Socket with buffers of six bytes: messages of three or four bytes are   *)
(* small, those of seven are large, and a size takes two bytes.            *)
EXTENDS Socket

MCInbound ==
  {<<[action |-> "CONNECT", size |-> 4], [action |-> "MESSAGE", size |-> 7],
     [action |-> "DISCONNECT", size |-> 4]>>}

MCDrafts ==
  {[size |-> 3, override |-> 0], [size |-> 4, override |-> 5], [size |-> 7, override |-> 5]}
-----------------------------------------------------------------------------
(* What the messages of the library contain, over bounded inputs.          *)
Codec == INSTANCE Messages

Headers ==
  [subscriptionID : {<<1, 0, 0, 128>>}, subject : {<<65, 255, 0>>},
   replySubject : {<< >>, <<66>>}, action : {6}]

Fields ==
  {[name |-> <<97>>, dataType |-> "STRING", data |-> << >>],
   [name |-> << >>, dataType |-> "BLOB", data |-> <<65, 255, 0>>],
   [name |-> <<97>>, dataType |-> "SIGNED_INT32", data |-> <<1, 2, 255, 128>>],
   [name |-> <<98>>, dataType |-> "DOUBLE", data |-> <<0, 0, 0, 0, 0, 0, 240, 63>>],
   [name |-> <<98>>, dataType |-> "BOOL", data |-> TRUE]}

Made(fields) == FoldLeft(LAMBDA m, f : Codec!addField(m, f.name, f.dataType, f.data),
                         Codec!Message, fields)

Flat   == {Made(fields) : fields \in SeqOf(Fields, 2)}
Nested == {Made(<<[name |-> <<98>>, dataType |-> "MESSAGE", data |-> m],
                  [name |-> <<98>>, dataType |-> "BOOL", data |-> FALSE]>>) : m \in Flat}

(***************************************************************************)
(* A message is read from what is sent for it just as it was written, its  *)
(* messages inside messages and fields of one name included, with a        *)
(* subscription ID that was overridden on the way in place of its own.     *)
(***************************************************************************)
ASSUME MessagesReadBack ==
  \A header \in Headers, m \in Nested \cup {Codec!Message} :
    LET sent == Codec!getBuffer(Codec!write_networkMessage(header, m)) IN
    /\ Codec!Number(SubSeq(sent, 1, 4)) = Len(sent)
    /\ Codec!read_networkMessage(sent) = [ok |-> TRUE, header |-> header, message |-> m]
    /\ LET id == <<7, 0, 255, 1>> IN
       Codec!read_networkMessage(Codec!overrideSubscriptionID(sent, id))
         = [ok |-> TRUE, header |-> [header EXCEPT !.subscriptionID = id], message |-> m]

(***************************************************************************)
(* What was cut off is not mistaken for a message.                         *)
(***************************************************************************)
ASSUME CutOffMessagesThrow ==
  \A m \in Flat :
    LET header == [subscriptionID |-> <<1, 0, 0, 0>>, subject |-> <<65>>,
                   replySubject |-> << >>, action |-> 6]
        sent   == Codec!getBuffer(Codec!write_networkMessage(header, m))
    IN  \A n \in 4 .. Len(sent) - 1 : ~Codec!read_networkMessage(SubSeq(sent, 1, n)).ok

(***************************************************************************)
(* A getter finds the first field of a name, and what is set through it is *)
(* what is written.                                                        *)
(***************************************************************************)
ASSUME FirstFieldIsFound ==
  \A m \in Flat : \A name \in {m.fields[i].name : i \in DOMAIN m.fields} :
    LET first == SelectInSeq(m.fields, LAMBDA f : f.name = name)
        m2    == Codec!set(m, name, "BOOL", TRUE)
    IN  /\ Codec!getField(m, name) = m.fields[first]
        /\ Codec!get(m, name, m.fields[first].dataType) = [ok |-> TRUE, item |-> m.fields[first].data]
        /\ Codec!read_message(Codec!resetPosition(Codec!write_message(Codec!reset, m2))).item.fields
             = [m.fields EXCEPT ![first] = [name |-> name, dataType |-> "BOOL", data |-> TRUE]]
=============================================================================
