----------------------------- MODULE MCPipeline -----------------------------
(***************************************************************************)
(* Instances of Pipeline for TLC: two instants, the pair they make, and    *)
(* two source_query_versions.                                              *)
(***************************************************************************)
EXTENDS Pipeline, Sequences

Pair == <<"t1", "t2">>
Instants == <<"t1", "t2">>

\* x is redrawn between t1 and t2, w is built, z stays as it is.  Version v2
\* does not extract x at t1, and extracts nothing at t2.
MCExtract ==
    [key \in {"v1", "v2"} \X {"t1", "t2"} |->
        CASE key = <<"v1", "t1">> -> {<<"x", 1>>, <<"z", 1>>}
          [] key = <<"v1", "t2">> -> {<<"x", 2>>, <<"z", 1>>, <<"w", 1>>}
          [] key = <<"v2", "t1">> -> {<<"z", 1>>}
          [] key = <<"v2", "t2">> -> {}]

OneRetry == [ingest |-> 1, build |-> 1, publish_snapshot |-> 1, publish_changeset |-> 1]
PublishRetries ==
    [ingest |-> 0, build |-> 0, publish_snapshot |-> 0, publish_changeset |-> 1]

\* The mapped tasks of one run of each DAG.
Mapped(run, kind, version, ats, after) ==
    [i \in DOMAIN ats |->
        [run |-> run, kind |-> kind, version |-> version, at |-> ats[i], after |-> after]]

Ingest(run, version, times, after) ==
    Mapped(run, "ingest", version, [i \in DOMAIN times |-> <<times[i]>>], after)

Build(run, version, after) == Mapped(run, "build", version, <<Pair>>, after)

Publish(run, version, times, after) ==
    Mapped(run, "publish_snapshot", version, [i \in DOMAIN times |-> <<times[i]>>], after)
        \o Mapped(run, "publish_changeset", version, <<Pair>>, after)

\* Everything triggered at once: both instants ingested under v1, one of them
\* under v2, the pair built under both versions.
Overlap ==
    Ingest("i1", "v1", Instants, {}) \o Ingest("i2", "v2", <<"t2">>, {})
        \o Build("b1", "v1", {}) \o Build("b2", "v2", {})

\* Two publish runs over what was ingested and built, while one instant is
\* ingested again under the next version.
Republish ==
    Ingest("i1", "v1", Instants, {}) \o Build("b1", "v1", {"i1"})
        \o Publish("p1", "v1", Instants, {"b1"}) \o Publish("p2", "v1", <<"t2">>, {"b1"})
        \o Ingest("i2", "v2", <<"t2">>, {"b1"})

\* Two publish runs of the same changeset, triggered side by side.
PublishTwice ==
    Ingest("i1", "v1", Instants, {}) \o Build("b1", "v1", {"i1"})
        \o Publish("p1", "v1", Instants, {"b1"}) \o Publish("p2", "v1", Instants, {"b1"})

\* t1 is ingested again, under v2, between a build and the publishing of v1.
ReingestBeforePublish ==
    Ingest("i1", "v1", Instants, {}) \o Build("b1", "v1", {"i1"})
        \o Ingest("i2", "v2", <<"t1">>, {"b1"}) \o Publish("p1", "v1", Instants, {"b1"})
=============================================================================
