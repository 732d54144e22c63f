---------------------------- MODULE MCSelection ----------------------------
(* Two directories with a default target each; a scheme a plugin registers  *)
(* and one that two plugins and fsspec claim, for chains, of which one has  *)
(* a secret in its second part.  Tests that select a target in each way,    *)
(* and whose options differ by a mapping and its items, a value, or a name. *)
EXTENDS Selection, Options, TLC

CONSTANTS fileA, fileB, r1, s1, rpw, chained, fa, fb, own, proxy, pool,
          dot, redis, bucket, secret, chain, json, gone, dirA, dirB,
          listed, nested, valued, named, opaque, p1, p2, p3, t1, t2, t3, t4, t5, t6, t7

MCSchemes == {"file", "redis", "simplecache"}
MCSchemeOf == fileA :> "file" @@ fileB :> "file" @@ r1 :> "redis" @@ rpw :> "redis"
              @@ s1 :> "simplecache" @@ chained :> "simplecache"
MCInstalled == "file" :> {} @@ "redis" :> {fa} @@ "simplecache" :> {fa, fb}

In(dir, uri) == <<dot, dir>> :> uri @@ <<redis, dir>> :> r1 @@ <<bucket, dir>> :> s1
                @@ <<secret, dir>> :> rpw @@ <<chain, dir>> :> chained
MCCanonical == In(dirA, fileA) @@ In(dirB, fileB)
MCPartsOf == dot :> <<"file">> @@ redis :> <<"redis">> @@ bucket :> <<"cache", "s3">>
             @@ secret :> <<"redis-pw">> @@ chain :> <<"cache", "s3-sig">>

k1 == 2
k2 == 3
MCItem == Pair(<<Atom(k2), Atom(PyTrue)>>)
Inner(n) == Dict(k2 :> Atom(n))
Values == Empty :> Dict(<<>>)
          @@ listed :> Dict(k1 :> List(<<MCItem>>))
          @@ nested :> Dict(k1 :> Inner(PyOne))
          @@ valued :> Dict(k1 :> Inner(4))
          @@ named :> Dict(k2 :> Inner(PyOne))
          @@ opaque :> Dict(k1 :> Unhashable)
MCPyValues ==
    {Values[o] : o \in DOMAIN Values}
    \cup {Atom(n) : n \in {PyOne, PyTrue, k2, 4}}
    \cup {Unhashable, MCItem, List(<<MCItem>>), Inner(PyOne), Inner(4)}
DepthOf[v \in MCPyValues] ==
    IF Inside(v) = {} THEN 0 ELSE 1 + Max({DepthOf[x] : x \in Inside(v)})
MCDepth == DepthOf

\* A frozen value is named by one of the options it comes from.
NameOf[o \in DOMAIN Values] ==
    IF ~CanFreeze(Values[o]) THEN None
    ELSE CHOOSE q \in DOMAIN Values :
             CanFreeze(Values[q]) /\ FreezeOptions(Values[q]) = FreezeOptions(Values[o])
MCFreeze == Empty :> NameOf[Empty] @@ listed :> NameOf[listed] @@ nested :> NameOf[nested]
            @@ valued :> NameOf[valued] @@ named :> NameOf[named] @@ opaque :> NameOf[opaque]
MCOpts == {NameOf[Empty], NameOf[listed], NameOf[nested], NameOf[valued], NameOf[named]}

AlikeTo[o \in DOMAIN Values] ==
    {q \in DOMAIN Values : AlikeAs[<<Values[o], Values[q]>>]}
MCAlike == Empty :> AlikeTo[Empty] @@ listed :> AlikeTo[listed] @@ nested :> AlikeTo[nested]
           @@ valued :> AlikeTo[valued] @@ named :> AlikeTo[named] @@ opaque :> AlikeTo[opaque]

\* What links the names to the values, as the theorem about SharedWithAlike asks.
ASSUME FreezeIsFreezeOptions == \A o, q \in Options :
    /\ Freeze[o] # None => CanFreeze(Values[o])
    /\ Freeze[o] # None /\ Freeze[o] = Freeze[q] =>
           FreezeOptions(Values[o]) = FreezeOptions(Values[q])
    /\ AlikeAs[<<Values[q], Values[o]>>] => o \in Alike[q]

Mark(uri, name) == [recorder |-> json, target |-> uri, profile |-> name]
Entry(kind, uri, options) == [shape |-> kind, uri |-> uri, options |-> options]
MCStatic == p1 :> Entry("mapping", redis, nested) @@ p2 :> Entry("string", redis, Empty)
Test(marks, dir, options) ==
    [marks |-> marks, dir |-> dir, outside |-> FALSE, legacy |-> FALSE,
     storage |-> "redis" :> options @@ "file" :> Empty @@ "simplecache" :> Empty,
     profiles |-> p3 :> Entry("mapping", secret, Empty)]
MCSuite == [t \in {t1, t2, t3, t4, t5, t6, t7} |->
    CASE t = t1 -> Test(<<>>, dirA, valued)
      [] t = t2 -> Test(<<>>, dirB, valued)
      [] t = t3 -> Test(<<Mark(redis, None)>>, dirA, listed)
      [] t = t4 -> Test(<<Mark(None, p1)>>, dirB, named)
      [] t = t5 -> Test(<<Mark(redis, None)>>, dirA, named)
      [] t = t6 -> Test(<<Mark(chain, None)>>, dirA, Empty)
      [] t = t7 -> Test(<<Mark(redis, None)>>, dirA, opaque)]

Ini(uri, name) == [target |-> uri, profile |-> name]
MCInis == {Ini(None, None), Ini(bucket, None), Ini(None, p2), Ini(None, p3),
           Ini(bucket, p1), Ini(secret, None)}

============================================================================
