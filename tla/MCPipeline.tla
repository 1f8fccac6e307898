----------------------------- MODULE MCPipeline -----------------------------
(* UdpPipeline for TLC: the threads that free frames are those of the pipeline. *)
EXTENDS UdpPipeline

PipelineThreads ==
  {RxThread} \cup {WorkerThread(w) : w \in Workers} \cup {RecvThread(r) : r \in Receivers}

SmallArrivals == {[kind |-> "data", src |-> "peer"], [kind |-> "data", src |-> "other"],
                  [kind |-> "bad", src |-> "peer"], [kind |-> "arp", src |-> "peer"]}

BlockAndPoll == <<"block", "nb">>
ToPeer == {Some("peer")}
=============================================================================
