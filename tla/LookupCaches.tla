---------------------------- MODULE LookupCaches ----------------------------
(***************************************************************************)
(* The two caches in front of method lookup (SPEC section 8) and everything *)
(* that must empty them: do_send of src/interp.rs, install_method,          *)
(* register_class and flush_caches of src/vm.rs, the collections of         *)
(* src/gc.rs, load_image of src/image.rs and the live compiler of           *)
(* st/ui/kernel/RuntimeCompiler.st.                                         *)
(*                                                                          *)
(* An inline cache is a pair of slots of a heap object, so a collection     *)
(* forwards it.  The global cache is outside the heap and holds addresses,  *)
(* which mean other objects once a collection has moved them.               *)
(***************************************************************************)
EXTENDS MethodLookup

CONSTANTS
    Site,       \* send sites, see SiteType
    Address,    \* where selectors and methods may be in memory
    Bucket,     \* entries of the global cache (LOOKUP_CACHE_SIZE of them)
    Hash,       \* Hash[c, a]: where the cache keeps class c and selector at a
    NoEntry

\* A send site: the method it belongs to, whether it is in that method's own
\* site table or in the table of a block inside it, its selector, and the
\* static class of a super send.
SiteType ==
    [code : Method, nested : BOOLEAN, selector : Selector, static : Class \cup {NoClass}]

Object == Selector \cup Method

ASSUME CacheAssumption ==
    /\ Site \subseteq SiteType
    /\ Hash \in [Class \X Address -> Bucket]
    /\ Selector \cap Method = {}

VARIABLES
    installed,  \* methods that have been in a dictionary: their code may run
    where,      \* the address of every selector and method
    inline,     \* cacheClass and cacheMethod of every site
    cache,      \* Vm::lookup_cache
    registry    \* Vm::site_registry

vars == <<classes, dict, activated, installed, where, inline, cache, registry>>

InlineEntry == [class : Class, method : Method] \cup {NoEntry}

CacheEntry == [class : Class, selector : Address, method : Address] \cup {NoEntry}

Placement ==
    {w \in [Object -> Address] : \A x, y \in Object : w[x] = w[y] => x = y}

TypeOK ==
    /\ LookupTypeOK
    /\ installed \subseteq Method
    /\ where \in Placement
    /\ inline \in [Site -> InlineEntry]
    /\ cache \in [Bucket -> CacheEntry]
    /\ registry \subseteq Site

-----------------------------------------------------------------------------
(* The global cache.                                                        *)

BucketOf(c, sel) == Hash[<<c, where[sel]>>]

Hit(c, sel) ==
    LET e == cache[BucketOf(c, sel)]
    IN  e # NoEntry /\ e.class = c /\ e.selector = where[sel]

\* The method an address means, with every object where w has it
MethodAt(w, a) ==
    IF \E m \in Method : w[m] = a THEN CHOOSE m \in Method : w[m] = a
    ELSE NoMethod

\* lookup_cached: its result, and the cache it leaves
LookupCached(c, sel) ==
    IF Hit(c, sel) THEN MethodAt(where, cache[BucketOf(c, sel)].method) ELSE Lookup(dict, c, sel)

Filled(c, sel) ==
    IF Hit(c, sel) \/ Lookup(dict, c, sel) = NoMethod THEN cache
    ELSE [cache EXCEPT ![BucketOf(c, sel)] =
            [class |-> c, selector |-> where[sel], method |-> where[Lookup(dict, c, sel)]]]

EmptyCache == [b \in Bucket |-> NoEntry]

-----------------------------------------------------------------------------
(* Sends.                                                                   *)

Activate(c, k, sel, m) ==
    activated' = [class |-> c, from |-> k, selector |-> sel, method |-> m]

\* does_not_understand: the second lookup goes through the global cache too.
DoesNotUnderstand(c, k, sel) ==
    /\ Activate(c, k, sel, LookupCached(c, Dnu))
    /\ cache' = Filled(c, Dnu)
    /\ UNCHANGED inline

\* Mutant of MayRefill: a failed lookup is remembered as well.
RefillAlways(m) == TRUE

MayRefill(m) == m # NoMethod

IsSuper(s) == s.static # NoClass

Start(s, c) == IF IsSuper(s) THEN Superclass(s.static) ELSE c

\* OP_SEND and OP_SENDSUPER.  The receiver of a super send is self, which
\* inherits from the static class.
Send(s, c) ==
    /\ s.code \in installed
    /\ IsSuper(s) => \E i \in DOMAIN Chain[c] : Chain[c][i] = s.static
    /\ \/ /\ inline[s] # NoEntry /\ inline[s].class = c
          /\ Activate(c, Start(s, c), s.selector, inline[s].method)
          /\ UNCHANGED <<inline, cache>>
       \/ /\ inline[s] # NoEntry => inline[s].class # c
          /\ LET m == IF IsSuper(s) THEN LookupFrom(dict, Start(s, c), s.selector)
                      ELSE LookupCached(c, s.selector)
             IN  \/ /\ MayRefill(m)
                    /\ inline' = [inline EXCEPT ![s] = [class |-> c, method |-> m]]
                    /\ cache' = IF IsSuper(s) THEN cache ELSE Filled(c, s.selector)
                    /\ Activate(c, Start(s, c), s.selector, m)
                 \/ /\ ~MayRefill(m)
                    /\ DoesNotUnderstand(c, Start(s, c), s.selector)
    /\ UNCHANGED <<classes, dict, installed, where, registry>>

\* A send with no site: perform:withArguments: and the slow path of a
\* specialized send.
SendUncached(c, sel) ==
    /\ \/ /\ LookupCached(c, sel) # NoMethod
          /\ Activate(c, c, sel, LookupCached(c, sel))
          /\ cache' = Filled(c, sel)
          /\ UNCHANGED inline
       \/ /\ LookupCached(c, sel) = NoMethod
          /\ DoesNotUnderstand(c, c, sel)
    /\ UNCHANGED <<classes, dict, installed, where, registry>>

-----------------------------------------------------------------------------
(* What changes the answer of a lookup, and what moves objects.             *)

\* Mutant of Cleared: the sites' caches are left alone.
ClearedNot(r) == inline

\* The inline caches after a walk of the registry r
Cleared(r) == [s \in Site |-> IF s \in r THEN NoEntry ELSE inline[s]]

\* flush_caches
Flush(r) ==
    /\ cache' = EmptyCache
    /\ inline' = Cleared(r)
    /\ registry' = r

\* Mutant of OwnSites: only the tables found by load_image are registered.
OwnSitesOnLoad(m) == {s \in Site : s.code = m /\ ~s.nested /\ s.code \in Loaded}

\* stamp_and_flush registers the method's own site table and no other.
OwnSites(m) == {s \in Site : s.code = m /\ ~s.nested}

\* Behavior>>compile:classified: and SystemDictionary>>evaluate:
Install(c, sel, m) ==
    /\ PutMethod(c, sel, m)
    /\ installed' = installed \cup {m}
    /\ Flush(registry \cup OwnSites(m))
    /\ UNCHANGED where

RegisterClass(c) ==
    /\ AddClass(c)
    /\ Flush(registry)
    /\ UNCHANGED <<installed, where>>

\* PRIM_FLUSH_CACHES
FlushCaches ==
    /\ Flush(registry)
    /\ UNCHANGED <<classes, dict, activated, installed, where>>

\* Mutant of AfterCollection: the entries outlive the collection.
KeptByCollection == cache

AfterCollection == EmptyCache

\* collect_young and collect_old
Collect ==
    /\ where' \in Placement
    /\ cache' = AfterCollection
    /\ UNCHANGED <<classes, dict, activated, installed, inline, registry>>

\* Snapshot, exit and load_image of what was saved: inline caches are saved
\* with the heap, and every site table in the image is registered.
Restart ==
    /\ where' \in Placement
    /\ cache' = EmptyCache
    /\ registry' = {s \in Site : s.code \in installed}
    /\ UNCHANGED <<classes, dict, activated, installed, inline>>

-----------------------------------------------------------------------------
Init ==
    /\ LookupInit
    /\ installed = Loaded
    /\ where \in Placement
    /\ inline = [s \in Site |-> NoEntry]
    /\ cache = EmptyCache
    /\ registry = {s \in Site : s.code \in Loaded}

Next ==
    \/ \E s \in Site, c \in classes : Send(s, c)
    \/ \E c \in classes, sel \in Selector : SendUncached(c, sel)
    \/ \E c \in classes, sel \in Selector, m \in Method : Install(c, sel, m)
    \/ \E c \in Class : RegisterClass(c)
    \/ FlushCaches \/ Collect \/ Restart

Spec == Init /\ [][Next]_vars

-----------------------------------------------------------------------------
(* Properties.                                                              *)

\* "Every CompiledMethod registers its table at installation" (SPEC.md:239):
\* code that may run has no site that a flush would miss.
SitesRegistered == \A s \in Site : s.code \in installed => s \in registry

\* What a cache remembers is what a lookup would find now: in particular, an
\* entry of the global cache still means the selector and the method it was
\* made for (src/gc.rs:39), and an inline cache survives no install
\* (src/vm.rs:498).
CachesAgree ==
    /\ \A s \in Site : inline[s] # NoEntry =>
            /\ s.code \in installed
            /\ inline[s].method = LookupFrom(dict, Start(s, inline[s].class), s.selector)
    /\ \A b \in Bucket, sel \in Selector :
            cache[b] # NoEntry /\ cache[b].selector = where[sel] =>
               /\ MethodAt(where, cache[b].method) # NoMethod
               /\ MethodAt(where, cache[b].method) = Lookup(dict, cache[b].class, sel)

\* Caching cannot be observed: every send activates what an uncached lookup
\* finds at that moment, "so subsequent sends observe the NEW behavior"
\* (tests/live_install_test.rs:8).
CachingInvisible == LookupSpec

=============================================================================
