------------------------------ MODULE MCTelegramProducer ------------------------------
EXTENDS TelegramProducer

Row(chat, time) == [chat |-> chat, kind |-> "record", time |-> time]
Invalid(chat) == [chat |-> chat, kind |-> "invalid", time |-> NoTime]

\* An invalid row between the records of a chat, whose last one is late: it sorts between
\* the others, in the window that had their source_ref.
MCLines == <<Row("a", 1), Invalid("b"), Row("a", 3), Row("a", 2)>>

\* One chat with a record that has no usable time.
MCUntimed == <<Row("a", 1), Row("a", NoTime), Row("a", 2)>>
==============================================================================
