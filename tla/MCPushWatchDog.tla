--------------------------- MODULE MCPushWatchDog ---------------------------
EXTENDS PushWatchDog

(* The vector of message number n of the sender's start with upper half t. *)
MCIv(t, n) ==
  [i \in 0 .. 15 |-> IF i = 7 THEN t ELSE IF i < 8 THEN 0
                     ELSE (n \div Base^(15-i)) % Base]

MCMessage(t, n, text) ==
  lora_write([header |-> MESSAGE_HEADER, iv |-> MCIv(t, n),
              payload |-> Encrypt(text, MCIv(t, n))])

(* Two messages of the sender, between which one was lost; a message of    *)
(* another start of it; a frame that ends with its framing, one of another  *)
(* user of the band.                                                        *)
MCFrames ==
  {MCMessage(0, 0, "open_"), MCMessage(0, 2, "close"),
   MCMessage(1, 1, "close"),
   [bytes |-> [i \in 0 .. 16 |-> 1], payload |-> NoPayload],
   [bytes |-> [i \in 0 .. 16 |-> 1],
    payload |-> Encrypt("garbage", MCIv(0, 0))]}

(* What a clock that is not running may read as: the epoch. *)
MCGarbage == {0}
=============================================================================
