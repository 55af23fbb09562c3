--------------------------- MODULE ChannelClientMC ---------------------------
(***************************************************************************)
(* Two workers on one channel: a producer and a consumer.  A blocking put  *)
(* is an asynchronous one followed by a wait, so the asynchronous one      *)
(* covers it.                                                              *)
(***************************************************************************)
EXTENDS ChannelClient

ProducerConsumer ==
  ({"producer"} \X {"put_async", "put_nowait"}) \cup
  ({"consumer"} \X {"get", "get_async", "get_nowait"})

PutsAhead == {<<"producer", "put_async">>, <<"consumer", "get">>}

=============================================================================
