---------------------------- MODULE LookupProofs ----------------------------
(***************************************************************************)
(* Proofs about LookupCaches for every class hierarchy, every set of        *)
(* methods and sites and every hash function: as long as live code has no   *)
(* block with sends, caching cannot be observed.                            *)
(***************************************************************************)
EXTENDS LookupCaches, WellFoundedInduction, TLAPS

\* What the live compiler breaks and the image loader does not: the site
\* tables of blocks are registered.
NoLiveBlocks == \A s \in Site : s.nested => s.code \in Loaded

GlobalOK(g, w, d) ==
    \A b \in Bucket, sel \in Selector :
        g[b] # NoEntry /\ g[b].selector = w[sel] =>
            /\ MethodAt(w, g[b].method) # NoMethod
            /\ MethodAt(w, g[b].method) = Lookup(d, g[b].class, sel)

IInv == TypeOK /\ SitesRegistered /\ CachesAgree

-----------------------------------------------------------------------------
(* Lookup.                                                                  *)

LEMMA LeastExists ==
    ASSUME NEW T, T \subseteq Nat, T # {}
    PROVE  \E m \in T : \A k \in T : m <= k
<1> DEFINE R == OpToRel(<, Nat)
<1>1. IsWellFoundedOn(R, Nat)
  BY NatLessThanWellFounded
<1>2. \A x, y \in Nat : y < x => <<y, x>> \in R
  BY DEF OpToRel
<1> HIDE DEF R
<1>3. PICK m \in T : \A y \in T : ~ (<<y, m>> \in R)
  BY <1>1, WFMin
<1>4. \A y \in T : ~(y < m)
  BY <1>2, <1>3
<1> QED
  BY <1>4

LEMMA LookupTyped ==
    ASSUME NEW d \in Dictionary, NEW k \in Class, NEW sel \in Selector
    PROVE  Lookup(d, k, sel) \in Method \cup {NoMethod}
<1> DEFINE D == Definers(d, k, sel)
<1>1. Chain[k] \in Seq(Class)
  BY LookupAssumption
<1>2. D \subseteq Nat /\ D \subseteq DOMAIN Chain[k]
  BY <1>1 DEF Definers
<1>3. CASE D = {}
  BY <1>3 DEF Lookup
<1>4. CASE D # {}
  <2>1. \E i \in D : \A j \in D : i <= j
    BY <1>2, <1>4, LeastExists
  <2> DEFINE nearest == CHOOSE i \in D : \A j \in D : i <= j
  <2>2. nearest \in D
    BY <2>1
  <2>3. Chain[k][nearest] \in Class
    BY <1>1, <1>2, <2>2
  <2>4. d[Chain[k][nearest]][sel] \in Method \cup {NoMethod}
    BY <2>3 DEF Dictionary
  <2>5. Lookup(d, k, sel) = d[Chain[k][nearest]][sel]
    BY <1>4 DEF Lookup
  <2> QED
    BY <2>4, <2>5
<1> QED
  BY <1>3, <1>4

LEMMA LookupFromTyped ==
    ASSUME NEW d \in Dictionary, NEW k \in Class \cup {NoClass}, NEW sel \in Selector
    PROVE  LookupFrom(d, k, sel) \in Method \cup {NoMethod}
BY LookupTyped DEF LookupFrom

LEMMA StartTyped ==
    ASSUME NEW s \in Site, NEW c \in Class
    PROVE  /\ Start(s, c) \in Class \cup {NoClass}
           /\ s.selector \in Selector /\ s.code \in Method
           /\ ~IsSuper(s) => Start(s, c) = c
<1>1. s \in SiteType
  BY CacheAssumption
<1>2. s.selector \in Selector /\ s.code \in Method /\ s.static \in Class \cup {NoClass}
  BY <1>1 DEF SiteType
<1>3. \A k \in Class : Superclass(k) \in Class \cup {NoClass}
  <2> TAKE k \in Class
  <2>1. Chain[k] \in Seq(Class) /\ Chain[k] # <<>>
    BY LookupAssumption
  <2>2. Len(Chain[k]) \in Nat /\ Len(Chain[k]) > 0
    BY <2>1
  <2>3. CASE Len(Chain[k]) = 1
    BY <2>3 DEF Superclass
  <2>4. CASE Len(Chain[k]) # 1
    <3> DEFINE n == Len(Chain[k])
    <3>0. n \in Nat /\ n > 0 /\ n # 1
      BY <2>2, <2>4
    <3> HIDE DEF n
    <3>1. 2 \in 1..n
      BY <3>0
    <3> USE DEF n
    <3>2. Chain[k][2] \in Class
      BY <2>1, <3>1
    <3> QED
      BY <2>4, <3>2 DEF Superclass
  <2> QED
    BY <2>3, <2>4
<1> QED
  BY <1>2, <1>3 DEF Start, IsSuper

\* An address means the method that is there.
LEMMA MethodAtItsAddress ==
    ASSUME NEW w \in Placement, NEW m \in Method
    PROVE  MethodAt(w, w[m]) = m
<1>1. \A n \in Method : w[n] = w[m] => n = m
  BY DEF Placement, Object
<1> QED
  BY <1>1 DEF MethodAt

-----------------------------------------------------------------------------
(* The global cache.                                                        *)

LEMMA CachedIsLookup ==
    ASSUME TypeOK, CachesAgree, NEW c \in Class, NEW sel \in Selector
    PROVE  LookupCached(c, sel) = Lookup(dict, c, sel)
<1>1. BucketOf(c, sel) \in Bucket
  BY CacheAssumption DEF TypeOK, Placement, Object, BucketOf
<1>2. CASE Hit(c, sel)
  <2> DEFINE b == BucketOf(c, sel)
  <2>1. cache[b] # NoEntry /\ cache[b].class = c /\ cache[b].selector = where[sel]
    BY <1>2 DEF Hit
  <2>2. MethodAt(where, cache[b].method) = Lookup(dict, cache[b].class, sel)
    BY <1>1, <2>1 DEF CachesAgree
  <2> QED
    BY <1>2, <2>1, <2>2 DEF LookupCached
<1>3. CASE ~Hit(c, sel)
  BY <1>3 DEF LookupCached
<1> QED
  BY <1>2, <1>3

LEMMA FilledFacts ==
    ASSUME TypeOK, CachesAgree, NEW c \in Class, NEW sel \in Selector
    PROVE  /\ Filled(c, sel) \in [Bucket -> CacheEntry]
           /\ GlobalOK(Filled(c, sel), where, dict)
<1> DEFINE b0 == BucketOf(c, sel)
           m == Lookup(dict, c, sel)
           e == [class |-> c, selector |-> where[sel], method |-> where[m]]
           g == Filled(c, sel)
<1>1. GlobalOK(cache, where, dict) /\ cache \in [Bucket -> CacheEntry]
  BY DEF CachesAgree, TypeOK, GlobalOK
<1>2. CASE Hit(c, sel) \/ m = NoMethod
  BY <1>1, <1>2 DEF Filled
<1>3. CASE ~(Hit(c, sel) \/ m = NoMethod)
  <2>1. m \in Method /\ m # NoMethod
    BY <1>3, LookupTyped DEF TypeOK, LookupTypeOK
  <2>2. where \in Placement /\ where[m] \in Address /\ where[sel] \in Address
    BY <2>1 DEF TypeOK, Placement, Object
  <2>3. b0 \in Bucket
    BY <2>2, CacheAssumption DEF BucketOf
  <2>4. g = [cache EXCEPT ![b0] = e]
    BY <1>3 DEF Filled
  <2>5. e \in CacheEntry
    BY <2>2 DEF CacheEntry
  <2>6. g \in [Bucket -> CacheEntry]
    BY <1>1, <2>3, <2>4, <2>5
  <2>7. \A x \in Selector : where[x] = where[sel] => x = sel
    BY <2>2 DEF Placement, Object
  <2>8. MethodAt(where, where[m]) = m
    BY <2>1, <2>2, MethodAtItsAddress
  <2>9. g[b0] = e /\ \A b \in Bucket : b # b0 => g[b] = cache[b]
    BY <1>1, <2>3, <2>4
  <2> HIDE DEF g, b0, m
  <2>10. ASSUME NEW b \in Bucket, NEW x \in Selector,
                g[b] # NoEntry, g[b].selector = where[x]
         PROVE  /\ MethodAt(where, g[b].method) # NoMethod
                /\ MethodAt(where, g[b].method) = Lookup(dict, g[b].class, x)
    <3>1. CASE b = b0
      <4>1. x = sel
        BY <2>7, <2>9, <2>10, <3>1
      <4>2. g[b].class = c /\ g[b].method = where[m]
        BY <2>9, <3>1
      <4> QED
        BY <2>1, <2>8, <4>1, <4>2 DEF m
    <3>2. CASE b # b0
      <4>1. g[b] = cache[b]
        BY <2>9, <3>2
      <4> QED
        BY <1>1, <2>10, <4>1 DEF GlobalOK
    <3> QED
      BY <3>1, <3>2
  <2> QED
    BY <2>6, <2>10 DEF GlobalOK, g
<1> QED
  BY <1>2, <1>3

-----------------------------------------------------------------------------
(* The steps.                                                               *)

\* Parts of the state, so that a step lemma says which of them it left alone.
InlineOK(inl, inst, d) ==
    \A s \in Site : inl[s] # NoEntry =>
        /\ s.code \in inst
        /\ inl[s].method = LookupFrom(d, Start(s, inl[s].class), s.selector)

LEMMA AgreeParts ==
    CachesAgree <=> InlineOK(inline, installed, dict) /\ GlobalOK(cache, where, dict)
BY DEF CachesAgree, InlineOK, GlobalOK

\* The empty cache agrees with everything.
LEMMA EmptyFacts ==
    ASSUME NEW w, NEW d
    PROVE  /\ EmptyCache \in [Bucket -> CacheEntry]
           /\ GlobalOK(EmptyCache, w, d)
BY DEF EmptyCache, CacheEntry, GlobalOK

\* A walk of a registry that holds every running site leaves no inline cache.
LEMMA FlushFacts ==
    ASSUME NEW r, NEW inst, NEW d, r \subseteq Site, TypeOK, CachesAgree,
           \A s \in Site : s.code \in installed => s \in r
    PROVE  /\ Cleared(r) \in [Site -> InlineEntry]
           /\ InlineOK(Cleared(r), inst, d)
<1>1. inline \in [Site -> InlineEntry]
  BY DEF TypeOK
<1>2. \A s \in Site : s \notin r => inline[s] = NoEntry
  BY DEF CachesAgree
<1>3. \A s \in Site : Cleared(r)[s] = NoEntry
  BY <1>2 DEF Cleared
<1>4. Cleared(r) = [s \in Site |-> NoEntry]
  BY <1>3 DEF Cleared
<1> QED
  BY <1>3, <1>4 DEF InlineOK, InlineEntry

\* What a send does to the caches when its lookup succeeds or fails.
LEMMA DnuFacts ==
    ASSUME IInv, NEW c \in classes, NEW k \in Class \cup {NoClass}, NEW sel \in Selector,
           DoesNotUnderstand(c, k, sel), LookupFrom(dict, k, sel) = NoMethod,
           UNCHANGED <<classes, dict, installed, where, registry>>
    PROVE  IInv' /\ SendMeans(c, k, sel)
<1>1. c \in Class /\ Dnu \in Selector /\ dict \in Dictionary
  BY LookupAssumption DEF IInv, TypeOK, LookupTypeOK
<1>2. LookupCached(c, Dnu) = Lookup(dict, c, Dnu)
  BY <1>1, CachedIsLookup DEF IInv
<1>3. Lookup(dict, c, Dnu) \in Method \cup {NoMethod}
  BY <1>1, LookupTyped
<1>4. cache' \in [Bucket -> CacheEntry] /\ GlobalOK(cache', where, dict)
  BY <1>1, FilledFacts DEF IInv, DoesNotUnderstand
<1>5. activated' = [class |-> c, from |-> k, selector |-> sel, method |-> Lookup(dict, c, Dnu)]
  BY <1>2 DEF DoesNotUnderstand, Activate
<1>6. activated' \in Activation
  BY <1>1, <1>3, <1>5 DEF Activation
<1>7. inline' = inline
  BY DEF DoesNotUnderstand
<1>8. TypeOK'
  BY <1>4, <1>6, <1>7 DEF IInv, TypeOK, LookupTypeOK
<1>9. CachesAgree'
  <2>1. InlineOK(inline, installed, dict)
    BY AgreeParts DEF IInv
  <2>2. InlineOK(inline', installed', dict') /\ GlobalOK(cache', where', dict')
    BY <2>1, <1>4, <1>7
  <2>3. CachesAgree' <=> InlineOK(inline', installed', dict') /\ GlobalOK(cache', where', dict')
    BY DEF CachesAgree, InlineOK, GlobalOK
  <2> QED
    BY <2>2, <2>3
<1>10. SitesRegistered'
  BY DEF IInv, SitesRegistered
<1>11. SendMeans(c, k, sel)
  BY <1>5 DEF SendMeans, Meaning
<1> QED
  BY <1>8, <1>9, <1>10, <1>11 DEF IInv

LEMMA SendStep ==
    ASSUME IInv, NEW s \in Site, NEW c \in classes, Send(s, c)
    PROVE  IInv' /\ LookupNext
<1> DEFINE k == Start(s, c)
           sel == s.selector
           m == IF IsSuper(s) THEN LookupFrom(dict, k, sel) ELSE LookupCached(c, sel)
<1>1. c \in Class /\ dict \in Dictionary /\ inline \in [Site -> InlineEntry]
  BY DEF IInv, TypeOK, LookupTypeOK
<1>2. /\ k \in Class \cup {NoClass} /\ sel \in Selector
      /\ ~IsSuper(s) => k = c
  BY <1>1, StartTyped
<1>3. LookupFrom(dict, k, sel) \in Method \cup {NoMethod}
  BY <1>1, <1>2, LookupFromTyped
<1>4. m = LookupFrom(dict, k, sel)
  <2>1. LookupCached(c, sel) = Lookup(dict, c, sel)
    BY <1>1, <1>2, CachedIsLookup DEF IInv
  <2>2. c # NoClass
    BY <1>1, LookupAssumption
  <2> QED
    BY <1>2, <2>1, <2>2 DEF LookupFrom
<1>5. UNCHANGED <<classes, dict, installed, where, registry>> /\ s.code \in installed
  BY DEF Send
<1>6. InlineOK(inline, installed, dict) /\ GlobalOK(cache, where, dict)
  BY AgreeParts DEF IInv
<1>7. SendMeans(c, k, sel) => LookupNext
  BY <1>2 DEF LookupNext
<1>8. CachesAgree' <=> InlineOK(inline', installed', dict') /\ GlobalOK(cache', where', dict')
  BY DEF CachesAgree, InlineOK, GlobalOK
<1>9. ASSUME LookupFrom(dict, k, sel) # NoMethod,
             Activate(c, k, sel, LookupFrom(dict, k, sel))
      PROVE  activated' \in Activation /\ SendMeans(c, k, sel)
  <2>1. activated' = [class |-> c, from |-> k, selector |-> sel,
                      method |-> LookupFrom(dict, k, sel)]
    BY <1>9 DEF Activate
  <2>2. activated' \in Activation
    BY <1>1, <1>2, <1>3, <2>1 DEF Activation
  <2> QED
    BY <1>5, <1>9, <2>1, <2>2 DEF SendMeans, Meaning
<1>10. CASE /\ inline[s] # NoEntry /\ inline[s].class = c
            /\ Activate(c, k, sel, inline[s].method)
            /\ UNCHANGED <<inline, cache>>
  <2>1. inline[s].method = LookupFrom(dict, k, sel)
    BY <1>6, <1>10 DEF InlineOK
  <2>2. inline[s].method # NoMethod
    BY <1>1, <1>10, LookupAssumption DEF InlineEntry
  <2>3. activated' \in Activation /\ SendMeans(c, k, sel)
    BY <1>9, <1>10, <2>1, <2>2
  <2>4. CachesAgree'
    BY <1>5, <1>6, <1>8, <1>10
  <2>5. TypeOK' /\ SitesRegistered'
    BY <1>5, <1>10, <2>3 DEF IInv, TypeOK, LookupTypeOK, SitesRegistered
  <2> QED
    BY <1>7, <2>3, <2>4, <2>5 DEF IInv
<1>11. CASE /\ MayRefill(m)
            /\ inline' = [inline EXCEPT ![s] = [class |-> c, method |-> m]]
            /\ cache' = IF IsSuper(s) THEN cache ELSE Filled(c, sel)
            /\ Activate(c, k, sel, m)
  <2>1. m # NoMethod /\ m \in Method
    BY <1>3, <1>4, <1>11 DEF MayRefill
  <2>2. activated' \in Activation /\ SendMeans(c, k, sel)
    BY <1>4, <1>9, <1>11, <2>1
  <2>3. cache' \in [Bucket -> CacheEntry] /\ GlobalOK(cache', where, dict)
    <3>1. Filled(c, sel) \in [Bucket -> CacheEntry] /\ GlobalOK(Filled(c, sel), where, dict)
      BY <1>1, <1>2, FilledFacts DEF IInv
    <3>2. cache \in [Bucket -> CacheEntry]
      BY DEF IInv, TypeOK
    <3> QED
      BY <1>6, <1>11, <3>1, <3>2
  <2> DEFINE e == [class |-> c, method |-> m]
  <2>4. e \in InlineEntry /\ e.class = c /\ e.method = LookupFrom(dict, k, sel)
    BY <1>1, <1>4, <2>1 DEF InlineEntry
  <2>5. /\ inline' \in [Site -> InlineEntry]
        /\ inline'[s] = e
        /\ \A t \in Site : t # s => inline'[t] = inline[t]
    BY <1>1, <1>11, <2>4
  <2> HIDE DEF e, m
  <2>6. InlineOK(inline', installed, dict)
    <3> SUFFICES ASSUME NEW t \in Site, inline'[t] # NoEntry
                 PROVE  /\ t.code \in installed
                        /\ inline'[t].method
                             = LookupFrom(dict, Start(t, inline'[t].class), t.selector)
      BY DEF InlineOK
    <3>1. CASE t = s
      BY <1>5, <2>4, <2>5, <3>1
    <3>2. CASE t # s
      BY <1>6, <2>5, <3>2 DEF InlineOK
    <3> QED
      BY <3>1, <3>2
  <2>7. CachesAgree'
    BY <1>5, <1>8, <2>3, <2>6
  <2>8. TypeOK' /\ SitesRegistered'
    BY <1>5, <2>2, <2>3, <2>5 DEF IInv, TypeOK, LookupTypeOK, SitesRegistered
  <2> QED
    BY <1>7, <2>2, <2>7, <2>8 DEF IInv
<1>12. CASE ~MayRefill(m) /\ DoesNotUnderstand(c, k, sel)
  <2>1. LookupFrom(dict, k, sel) = NoMethod
    BY <1>4, <1>12 DEF MayRefill
  <2>2. IInv' /\ SendMeans(c, k, sel)
    BY <1>2, <1>5, <1>12, <2>1, DnuFacts
  <2> QED
    BY <1>7, <2>2
<1> QED
  BY <1>10, <1>11, <1>12 DEF Send

LEMMA SendUncachedStep ==
    ASSUME IInv, NEW c \in classes, NEW sel \in Selector, SendUncached(c, sel)
    PROVE  IInv' /\ LookupNext
<1>1. c \in Class /\ dict \in Dictionary /\ c # NoClass
  BY LookupAssumption DEF IInv, TypeOK, LookupTypeOK
<1>2. LookupCached(c, sel) = Lookup(dict, c, sel)
  BY <1>1, CachedIsLookup DEF IInv
<1>3. LookupFrom(dict, c, sel) = Lookup(dict, c, sel)
  BY <1>1 DEF LookupFrom
<1>4. Lookup(dict, c, sel) \in Method \cup {NoMethod}
  BY <1>1, LookupTyped
<1>5. UNCHANGED <<classes, dict, installed, where, registry>>
  BY DEF SendUncached
<1>6. SendMeans(c, c, sel) => LookupNext
  BY <1>1 DEF LookupNext
<1>7. CASE /\ LookupCached(c, sel) # NoMethod
           /\ Activate(c, c, sel, LookupCached(c, sel))
           /\ cache' = Filled(c, sel)
           /\ UNCHANGED inline
  <2>1. activated' = [class |-> c, from |-> c, selector |-> sel, method |-> Lookup(dict, c, sel)]
    BY <1>2, <1>7 DEF Activate
  <2>2. activated' \in Activation
    BY <1>1, <1>4, <2>1 DEF Activation
  <2>3. cache' \in [Bucket -> CacheEntry] /\ GlobalOK(cache', where, dict)
    BY <1>1, <1>7, FilledFacts DEF IInv
  <2>4. InlineOK(inline, installed, dict)
    BY AgreeParts DEF IInv
  <2>5. CachesAgree' <=> InlineOK(inline', installed', dict') /\ GlobalOK(cache', where', dict')
    BY DEF CachesAgree, InlineOK, GlobalOK
  <2>6. CachesAgree'
    BY <1>5, <1>7, <2>3, <2>4, <2>5
  <2>7. TypeOK' /\ SitesRegistered'
    BY <1>5, <1>7, <2>2, <2>3 DEF IInv, TypeOK, LookupTypeOK, SitesRegistered
  <2>8. SendMeans(c, c, sel)
    BY <1>2, <1>3, <1>5, <1>7, <2>1 DEF SendMeans, Meaning
  <2> QED
    BY <1>6, <2>6, <2>7, <2>8 DEF IInv
<1>8. CASE LookupCached(c, sel) = NoMethod /\ DoesNotUnderstand(c, c, sel)
  <2>1. IInv' /\ SendMeans(c, c, sel)
    BY <1>1, <1>2, <1>3, <1>5, <1>8, DnuFacts
  <2> QED
    BY <1>6, <2>1
<1> QED
  BY <1>7, <1>8 DEF SendUncached

\* What every flush establishes, whatever else the step did to the
\* dictionaries and the methods.
LEMMA FlushStep ==
    ASSUME IInv, NEW r, r \subseteq Site, Flush(r), where' = where,
           LookupTypeOK', installed' \subseteq Method,
           registry \subseteq r,
           \A s \in Site : s.code \in installed' => s \in r
    PROVE  IInv'
<1>1. \A s \in Site : s.code \in installed => s \in r
  BY DEF IInv, SitesRegistered
<1>2. /\ Cleared(r) \in [Site -> InlineEntry]
      /\ InlineOK(Cleared(r), installed', dict')
  BY <1>1, FlushFacts DEF IInv
<1>3. /\ EmptyCache \in [Bucket -> CacheEntry]
      /\ GlobalOK(EmptyCache, where', dict')
  BY EmptyFacts
<1>4. cache' = EmptyCache /\ inline' = Cleared(r) /\ registry' = r
  BY DEF Flush
<1>5. CachesAgree' <=> InlineOK(inline', installed', dict') /\ GlobalOK(cache', where', dict')
  BY DEF CachesAgree, InlineOK, GlobalOK
<1>6. CachesAgree'
  BY <1>2, <1>3, <1>4, <1>5
<1>7. TypeOK'
  BY <1>2, <1>3, <1>4 DEF IInv, TypeOK
<1>8. SitesRegistered'
  BY <1>4 DEF SitesRegistered
<1> QED
  BY <1>6, <1>7, <1>8 DEF IInv

LEMMA InstallStep ==
    ASSUME NoLiveBlocks, IInv, Loaded \subseteq installed,
           NEW c \in classes, NEW sel \in Selector, NEW m \in Method, Install(c, sel, m)
    PROVE  IInv' /\ LookupNext
<1> DEFINE r == registry \cup OwnSites(m)
<1>1. dict' = [dict EXCEPT ![c][sel] = m] /\ UNCHANGED <<classes, activated>>
  BY DEF Install, PutMethod
<1>2. dict \in Dictionary /\ c \in Class
  BY DEF IInv, TypeOK, LookupTypeOK
<1>3. dict' \in Dictionary
  BY <1>1, <1>2 DEF Dictionary
<1>4. LookupTypeOK'
  BY <1>1, <1>3 DEF IInv, TypeOK, LookupTypeOK
<1>5. r \subseteq Site /\ registry \subseteq r
  BY DEF IInv, TypeOK, OwnSites
<1>6. installed' = installed \cup {m} /\ installed' \subseteq Method
  BY DEF Install, IInv, TypeOK
<1>7. ASSUME NEW s \in Site, s.code \in installed'
      PROVE  s \in r
  <2>1. CASE s.code \in installed
    BY <2>1 DEF IInv, SitesRegistered
  <2>2. CASE s.code = m /\ s.code \notin installed
    <3>1. ~s.nested
      BY <2>2 DEF NoLiveBlocks
    <3> QED
      BY <2>2, <3>1 DEF OwnSites
  <2> QED
    BY <1>6, <1>7, <2>1, <2>2
<1>8. Flush(r) /\ where' = where
  BY DEF Install
<1> HIDE DEF r
<1>9. IInv'
  BY <1>4, <1>5, <1>6, <1>7, <1>8, FlushStep
<1>10. LookupNext
  BY DEF Install, LookupNext
<1> QED
  BY <1>9, <1>10

LEMMA RegisterClassStep ==
    ASSUME IInv, NEW c \in Class, RegisterClass(c)
    PROVE  IInv' /\ LookupNext
<1>1. LookupTypeOK'
  BY DEF IInv, TypeOK, LookupTypeOK, RegisterClass, AddClass
<1>2. installed' \subseteq Method /\ registry \subseteq Site
  BY DEF IInv, TypeOK, RegisterClass
<1>3. \A s \in Site : s.code \in installed' => s \in registry
  BY DEF IInv, SitesRegistered, RegisterClass
<1>4. Flush(registry) /\ where' = where
  BY DEF RegisterClass
<1>5. IInv'
  BY <1>1, <1>2, <1>3, <1>4, FlushStep
<1>6. LookupNext
  BY DEF RegisterClass, LookupNext
<1> QED
  BY <1>5, <1>6

LEMMA FlushCachesStep ==
    ASSUME IInv, FlushCaches
    PROVE  IInv' /\ UNCHANGED lookupVars
<1>1. LookupTypeOK'
  BY DEF IInv, TypeOK, LookupTypeOK, FlushCaches
<1>2. installed' \subseteq Method /\ registry \subseteq Site
  BY DEF IInv, TypeOK, FlushCaches
<1>3. \A s \in Site : s.code \in installed' => s \in registry
  BY DEF IInv, SitesRegistered, FlushCaches
<1>4. Flush(registry) /\ where' = where
  BY DEF FlushCaches
<1>5. IInv'
  BY <1>1, <1>2, <1>3, <1>4, FlushStep
<1> QED
  BY <1>5 DEF FlushCaches, lookupVars

\* A collection and a restart: objects move, the global cache is empty.
LEMMA MoveStep ==
    ASSUME IInv, where' \in Placement, cache' = EmptyCache,
           UNCHANGED <<classes, dict, activated, installed, inline>>,
           registry' \subseteq Site, SitesRegistered'
    PROVE  IInv' /\ UNCHANGED lookupVars
<1>1. /\ EmptyCache \in [Bucket -> CacheEntry]
      /\ GlobalOK(EmptyCache, where', dict')
  BY EmptyFacts
<1>2. InlineOK(inline, installed, dict)
  BY AgreeParts DEF IInv
<1>3. CachesAgree' <=> InlineOK(inline', installed', dict') /\ GlobalOK(cache', where', dict')
  BY DEF CachesAgree, InlineOK, GlobalOK
<1>4. CachesAgree'
  BY <1>1, <1>2, <1>3
<1>5. TypeOK'
  BY <1>1 DEF IInv, TypeOK, LookupTypeOK
<1> QED
  BY <1>4, <1>5 DEF IInv, lookupVars

-----------------------------------------------------------------------------
(* The theorems.                                                            *)

LEMMA InitEstablishes ==
    ASSUME Init
    PROVE  IInv /\ Loaded \subseteq installed /\ LookupInit
<1>1. classes \subseteq Class /\ activated \in Activation
  BY DEF Init, LookupInit, Activation
<1>2. dict \in Dictionary
  BY LookupAssumption DEF Init, LookupInit, Dictionary
<1>3. inline \in [Site -> InlineEntry] /\ InlineOK(inline, installed, dict)
  BY DEF Init, InlineEntry, InlineOK
<1>4. cache \in [Bucket -> CacheEntry] /\ GlobalOK(cache, where, dict)
  BY EmptyFacts DEF Init
<1>5. installed \subseteq Method /\ where \in Placement /\ registry \subseteq Site
  BY LookupAssumption DEF Init
<1>6. TypeOK
  BY <1>1, <1>2, <1>3, <1>4, <1>5 DEF TypeOK, LookupTypeOK
<1>7. CachesAgree
  BY <1>3, <1>4, AgreeParts
<1> QED
  BY <1>6, <1>7 DEF Init, IInv, SitesRegistered

LEMMA NextPreserves ==
    ASSUME NoLiveBlocks, IInv, Loaded \subseteq installed, [Next]_vars
    PROVE  IInv' /\ Loaded \subseteq installed' /\ [LookupNext]_lookupVars
<1>1. ASSUME NEW s \in Site, NEW c \in classes, Send(s, c)
      PROVE  IInv' /\ installed' = installed /\ LookupNext
  BY <1>1, SendStep DEF Send
<1>2. ASSUME NEW c \in classes, NEW sel \in Selector, SendUncached(c, sel)
      PROVE  IInv' /\ installed' = installed /\ LookupNext
  BY <1>2, SendUncachedStep DEF SendUncached
<1>3. ASSUME NEW c \in classes, NEW sel \in Selector, NEW m \in Method, Install(c, sel, m)
      PROVE  IInv' /\ installed' = installed \cup {m} /\ LookupNext
  BY <1>3, InstallStep DEF Install
<1>4. ASSUME NEW c \in Class, RegisterClass(c)
      PROVE  IInv' /\ installed' = installed /\ LookupNext
  BY <1>4, RegisterClassStep DEF RegisterClass
<1>5. CASE FlushCaches
  BY <1>5, FlushCachesStep DEF FlushCaches
<1>6. CASE Collect
  <2>1. registry' \subseteq Site /\ SitesRegistered'
    BY <1>6 DEF Collect, IInv, TypeOK, SitesRegistered
  <2> QED
    BY <1>6, <2>1, MoveStep DEF Collect, AfterCollection
<1>7. CASE Restart
  <2>1. registry' \subseteq Site /\ SitesRegistered'
    BY <1>7 DEF Restart, SitesRegistered
  <2> QED
    BY <1>7, <2>1, MoveStep DEF Restart
<1>8. CASE UNCHANGED vars
  <2>1. IInv'
    BY <1>8 DEF vars, IInv, TypeOK, LookupTypeOK, SitesRegistered, CachesAgree
  <2> QED
    BY <1>8, <2>1 DEF vars, lookupVars
<1> QED
  BY <1>1, <1>2, <1>3, <1>4, <1>5, <1>6, <1>7, <1>8 DEF Next

\* The inductive invariant: the caches agree with the dictionaries because
\* every site that can have filled one is in the registry.
THEOREM LookupInvariant == ASSUME NoLiveBlocks PROVE Spec => []IInv
<1> DEFINE J == IInv /\ Loaded \subseteq installed
<1>1. Init => J
  BY InitEstablishes
<1>2. J /\ [Next]_vars => J'
  BY NextPreserves
<1>3. J => IInv
  OBVIOUS
<1> QED
  BY <1>1, <1>2, <1>3, PTL DEF Spec

\* No cache ever disagrees with the dictionaries, through installs, class
\* registrations, collections and restarts (flush_caches, src/vm.rs:514).
THEOREM CachesAlwaysAgree == ASSUME NoLiveBlocks PROVE Spec => []CachesAgree
<1>1. IInv => CachesAgree
  BY DEF IInv
<1> QED
  BY <1>1, LookupInvariant, PTL

\* No site that can fill its cache is out of a flush's reach
\* (stamp_and_flush, src/vm.rs:498).
THEOREM EverySiteRegistered == ASSUME NoLiveBlocks PROVE Spec => []SitesRegistered
<1>1. IInv => SitesRegistered
  BY DEF IInv
<1> QED
  BY <1>1, LookupInvariant, PTL

\* Types of the state of do_send and its caches.
THEOREM LookupTypes == ASSUME NoLiveBlocks PROVE Spec => []TypeOK
<1>1. IInv => TypeOK
  BY DEF IInv
<1> QED
  BY <1>1, LookupInvariant, PTL

\* Sends with caches implement sends without: each send activates what a walk
\* of the dictionaries finds at that moment (do_send, src/interp.rs:655).
THEOREM CachingIsInvisible == ASSUME NoLiveBlocks PROVE Spec => CachingInvisible
<1> DEFINE J == IInv /\ Loaded \subseteq installed
<1>1. Init => J /\ LookupInit
  BY InitEstablishes
<1>2. J /\ [Next]_vars => J' /\ [LookupNext]_lookupVars
  BY NextPreserves
<1> QED
  BY <1>1, <1>2, PTL DEF Spec, CachingInvisible, LookupSpec
=============================================================================
