---------------------------- MODULE ConfigProofs ----------------------------
(***************************************************************************)
(* Proofs about Config for any number of processes and requests, any       *)
(* bodies, and any faults.                                                 *)
(***************************************************************************)
EXTENDS Config, TLAPS

\* The configurations Validate accepts and those the code fills in itself.
Known ==
  {c \in [Fields -> Int \cup {"", "good", "default"}] :
     /\ \A f \in Fields \ Numbers : c[f] \in {"", "good", "default"}
     /\ \A f \in Numbers : c[f] \in Int
     /\ \A f \in Sizes : c[f] >= 0}

\* The ones with their defaults.
Complete == {c \in Known : \A f \in Enums \cup Sizes : c[f] # Unset(f)}

Request == [kind : {"none", "put", "write"}, at : Nodes \cup {Nil},
            step : {"idle", "load", "save", "provision", "invalidate", "fill", "write"},
            cfg : Known, gen : Nat, part : Nat, from : Nat]

Entry == [cfg : Complete, gen : Nat, fresh : BOOLEAN]

\* The record and the caches hold what their kind of configuration may be.
StoreInv ==
  /\ saved \in Nat /\ answered \in Nat
  /\ stored = Nil \/ stored \in [cfg : Known, gen : Nat]
  /\ DOMAIN cache = Nodes /\ cache = [n \in Nodes |-> cache[n]]
  /\ \A n \in Nodes : cache[n] = Nil \/ cache[n] \in Entry

\* A PUT never serves a write; what a write saves, caches or uses is complete.
ServesInv(r) ==
  /\ r.kind = "put" => r.step \notin {"load", "fill", "write"}
  /\ r.kind # "put" /\ r.step \in {"save", "provision", "fill", "write"} => r.cfg \in Complete

HandlerInv ==
  /\ handler \in [Handlers -> Request]
  /\ \A h \in Handlers : ServesInv(handler[h])

IndInv == StoreInv /\ HandlerInv

\* How the fields divide, and what their unset and default values are.
LEMMA FieldFacts ==
  /\ Sizes \subseteq Numbers /\ Numbers \subseteq Fields
  /\ Enums \subseteq Fields \ Numbers
  /\ \A f \in Enums : Unset(f) = "" /\ Default(f) = "default"
  /\ \A f \in Sizes : Unset(f) = 0 /\ Default(f) = 100
  /\ \A f \in Fields \ (Enums \cup Sizes) : Default(f) = Unset(f)
  /\ \A f \in Numbers : Unset(f) = 0
  /\ \A f \in Fields \ Numbers : Unset(f) = ""
<1>1. Sizes \subseteq Numbers /\ Numbers \subseteq Fields /\ Enums \subseteq Fields \ Numbers
      /\ Enums \cap Sizes = {}
  BY DEF Sizes, Numbers, Fields, Enums, Extras
<1>2. \A f \in Numbers : Unset(f) = 0
  BY DEF Unset
<1>3. \A f \in Fields \ Numbers : Unset(f) = ""
  BY DEF Unset
<1>4. \A f : (f \in Enums => Default(f) = "default") /\ (f \in Sizes => Default(f) = 100)
             /\ (f \notin Enums /\ f \notin Sizes => Default(f) = Unset(f))
  BY <1>1 DEF Default
<1> QED
  BY <1>1, <1>2, <1>3, <1>4

\* The empty configuration is one Validate accepts.
LEMMA NoConfigKnown == NoConfig \in Known
<1>1. \A f \in Fields : NoConfig[f] = Unset(f)
  BY DEF NoConfig
<1>2. \A f \in Fields \ Numbers : NoConfig[f] = ""
  <2> TAKE f \in Fields \ Numbers
  <2>1. Unset(f) = ""
    BY FieldFacts, Zenon
  <2> QED
    BY <1>1, <2>1, Zenon
<1>3. \A f \in Numbers : NoConfig[f] \in Int /\ NoConfig[f] >= 0
  <2> TAKE f \in Numbers
  <2>1. f \in Fields /\ Unset(f) = 0
    BY FieldFacts, Zenon
  <2>2. NoConfig[f] = 0
    BY <1>1, <2>1, Zenon
  <2> QED
    BY <2>2
<1>4. \A f \in Fields : NoConfig[f] \in Int \cup {"", "good", "default"}
  BY <1>2, <1>3, Zenon
<1>5. NoConfig \in [Fields -> Int \cup {"", "good", "default"}]
  BY <1>4, Zenon DEF NoConfig
<1> QED
  BY <1>2, <1>3, <1>5, FieldFacts, Zenon DEF Known

\* WithDefaults completes what Validate accepts.
LEMMA WithDefaultsCompletes ==
  ASSUME NEW c \in Known
  PROVE  WithDefaults(c) \in Complete
<1> DEFINE w == WithDefaults(c)
<1>1. \A f \in Fields : w[f] = IF c[f] = Unset(f) THEN Default(f) ELSE c[f]
  BY DEF WithDefaults
<1>2. /\ \A f \in Fields \ Numbers : c[f] \in {"", "good", "default"}
      /\ \A f \in Numbers : c[f] \in Int
      /\ \A f \in Sizes : c[f] >= 0
  BY DEF Known
<1> HIDE DEF w
<1>3. \A f \in Enums : w[f] \in {"", "good", "default"} /\ w[f] # Unset(f)
  <2> TAKE f \in Enums
  <2>1. Unset(f) = "" /\ Default(f) = "default" /\ f \in Fields \ Numbers
    BY FieldFacts, Zenon
  <2>2. w[f] = IF c[f] = "" THEN "default" ELSE c[f]
    BY <1>1, <2>1, Zenon
  <2> QED
    BY <1>2, <2>1, <2>2
<1>4. \A f \in Sizes : w[f] \in Int /\ w[f] >= 0 /\ w[f] # Unset(f)
  <2> TAKE f \in Sizes
  <2>1. Unset(f) = 0 /\ Default(f) = 100 /\ f \in Fields /\ f \in Numbers
    BY FieldFacts, Zenon
  <2>2. w[f] = IF c[f] = 0 THEN 100 ELSE c[f]
    BY <1>1, <2>1, Zenon
  <2>3. c[f] \in Int /\ c[f] >= 0
    BY <1>2, <2>1, Zenon
  <2> QED
    BY <2>1, <2>2, <2>3
<1>5. \A f \in Fields \ (Enums \cup Sizes) : w[f] = c[f]
  <2> TAKE f \in Fields \ (Enums \cup Sizes)
  <2>1. Default(f) = Unset(f)
    BY FieldFacts, Zenon
  <2> QED
    BY <1>1, <2>1, Zenon
<1>6. \A f \in Fields \ Numbers : w[f] \in {"", "good", "default"}
  BY <1>2, <1>3, <1>5, FieldFacts
<1>7. \A f \in Numbers : w[f] \in Int
  BY <1>2, <1>4, <1>5, FieldFacts
<1>8. w \in [Fields -> Int \cup {"", "good", "default"}]
  BY <1>6, <1>7, FieldFacts, Zenon DEF WithDefaults, w
<1>9. w \in Known
  BY <1>4, <1>6, <1>7, <1>8 DEF Known
<1> QED
  BY <1>3, <1>4, <1>9 DEF Complete, w

\* A body that decodes and passes Validate is a known configuration.
LEMMA DecodedKnown ==
  ASSUME NEW body \in Bodies, Validate(Decoded(body))
  PROVE  Decoded(body) \in Known
<1> DEFINE c == Decoded(body)
<1>1. \A f \in Fields : c[f] = IF body[f] = Omitted THEN Unset(f) ELSE body[f]
  BY DEF Decoded
<1>2. \A f \in Fields \ Numbers : c[f] \in {"", "good", "bad"} /\ c[f] # "bad"
  <2> TAKE f \in Fields \ Numbers
  <2>1. body[f] = Omitted \/ body[f] \in {"", "good", "bad"}
    BY ConfigAssumption, Zenon
  <2>2. Unset(f) = "" /\ c[f] # "bad"
    BY FieldFacts, Zenon DEF Validate
  <2> QED
    BY <1>1, <2>1, <2>2, Zenon
<1>3. \A f \in Numbers : c[f] \in Int
  <2> TAKE f \in Numbers
  <2>1. f \in Fields /\ Unset(f) = 0
    BY FieldFacts, Zenon
  <2>2. body[f] = Omitted \/ body[f] \in Int
    BY <2>1, ConfigAssumption, Zenon
  <2>3. 0 \in Int
    OBVIOUS
  <2> QED
    BY <1>1, <2>1, <2>2, <2>3, Zenon
<1>4. \A f \in Sizes : c[f] >= 0
  BY DEF Validate
<1>5. c \in [Fields -> Int \cup {"", "good", "default"}]
  BY <1>2, <1>3, FieldFacts DEF Decoded
<1> HIDE DEF c
<1> QED
  BY <1>2, <1>3, <1>4, <1>5 DEF Known, c

\* defaultedFields and WithDefaults agree on any configuration.
LEMMA DefaultsAgree ==
  ASSUME NEW c
  PROVE  DefaultedFields(c) = {f \in Fields : WithDefaults(c)[f] # c[f]}
<1>1. \A f \in Fields : WithDefaults(c)[f] = IF c[f] = Unset(f) THEN Default(f) ELSE c[f]
  BY DEF WithDefaults
<1>2. \A f \in Fields : WithDefaults(c)[f] # c[f] <=> f \in Enums \cup Sizes /\ c[f] = Unset(f)
  <2> TAKE f \in Fields
  <2>1. CASE f \in Enums
    <3>1. Unset(f) = "" /\ Default(f) = "default"
      BY <2>1, FieldFacts, Zenon
    <3> QED
      BY <1>1, <2>1, <3>1, Zenon
  <2>2. CASE f \in Sizes
    <3>1. Unset(f) = 0 /\ Default(f) = 100
      BY <2>2, FieldFacts, Zenon
    <3>2. 100 # 0
      OBVIOUS
    <3> QED
      BY <1>1, <2>2, <3>1, <3>2, Zenon
  <2>3. CASE f \in Fields \ (Enums \cup Sizes)
    <3>1. Default(f) = Unset(f)
      BY <2>3, FieldFacts, Zenon
    <3> QED
      BY <1>1, <2>3, <3>1, Zenon
  <2> QED
    BY <2>1, <2>2, <2>3
<1>3. Enums \cup Sizes \subseteq Fields
  BY DEF Fields
<1> QED
  BY <1>2, <1>3, Zenon DEF DefaultedFields

\* No request at all is fitting.
LEMMA NoHandlerFits == NoHandler \in Request /\ ServesInv(NoHandler)
BY NoConfigKnown DEF NoHandler, Request, ServesInv

\* Everything starts empty.
LEMMA InitInd == Init => IndInv
<1> SUFFICES ASSUME Init
             PROVE  IndInv
  OBVIOUS
<1>1. HandlerInv
  BY NoHandlerFits DEF Init, HandlerInv
<1>2. StoreInv
  BY DEF Init, StoreInv
<1> QED
  BY <1>1, <1>2 DEF IndInv

\* A request that begins, goes on or ends with a fitting record keeps HandlerInv.
LEMMA SetKeeps ==
  ASSUME HandlerInv, NEW h \in Handlers, NEW r \in Request, ServesInv(r), Set(h, r)
  PROVE  HandlerInv'
<1>1. \A x \in Handlers : handler'[x] = IF x = h THEN r ELSE handler[x]
  BY DEF HandlerInv, Set
<1>2. handler' \in [Handlers -> Request]
  BY DEF HandlerInv, Set
<1> QED
  BY <1>1, <1>2 DEF HandlerInv, ServesInv

\* A request ends: nothing stored or cached changes but an entry forgotten.
LEMMA EndKeeps ==
  ASSUME IndInv, NEW h \in Handlers, Set(h, NoHandler), StoreInv'
  PROVE  IndInv'
BY SetKeeps, NoHandlerFits DEF IndInv

\* SaveConfig stores what the request carries.
LEMMA SaveKeeps ==
  ASSUME IndInv, NEW h \in Handlers, Save(h)
  PROVE  IndInv'
<1> DEFINE r == handler[h]
           gen == IF r.kind = "put" THEN saved' ELSE 0
           next == [r EXCEPT !.step = "provision", !.part = 1, !.gen = gen]
<1>1. r \in Request /\ ServesInv(r) /\ r.step = "save" /\ saved \in Nat
  BY DEF IndInv, StoreInv, HandlerInv, Save
<1>2. saved' \in Nat /\ gen \in Nat
  BY <1>1 DEF Save
<1>3. stored' = [cfg |-> r.cfg, gen |-> gen] /\ Set(h, next) /\ UNCHANGED <<cache, answered>>
  BY DEF Save
<1> HIDE DEF gen
<1>4. next \in Request /\ ServesInv(next)
  BY <1>1, <1>2 DEF Request, ServesInv
<1>5. HandlerInv'
  BY <1>3, <1>4, SetKeeps DEF IndInv
<1>6. stored' \in [cfg : Known, gen : Nat]
  BY <1>1, <1>2, <1>3 DEF Request
<1>7. StoreInv'
  BY <1>2, <1>3, <1>6 DEF IndInv, StoreInv
<1> QED
  BY <1>5, <1>7 DEF IndInv

\* EnsurePhysical goes on, or hands over to the end of the PUT or to the write.
LEMMA ProvisionKeeps ==
  ASSUME IndInv, NEW h \in Handlers, Provision(h)
  PROVE  IndInv'
<1> DEFINE r == handler[h]
           more == [r EXCEPT !.part = @ + 1]
           done == [r EXCEPT !.part = 0, !.step = IF r.kind = "put" THEN "invalidate" ELSE "fill"]
<1>1. r \in Request /\ ServesInv(r) /\ r.step = "provision"
  BY DEF IndInv, HandlerInv, Provision
<1>2. Set(h, more) \/ Set(h, done)
  BY DEF Provision
<1>3. more \in Request /\ ServesInv(more)
  BY <1>1 DEF Request, ServesInv
<1>4. done \in Request /\ ServesInv(done)
  BY <1>1 DEF Request, ServesInv
<1>5. StoreInv'
  BY DEF IndInv, StoreInv, Provision
<1> QED
  BY <1>2, <1>3, <1>4, <1>5, SetKeeps DEF IndInv

\* PUT carries only what Validate accepts.
LEMMA PutBeginKeeps ==
  ASSUME IndInv, NEW h \in Handlers, PutBegin(h)
  PROVE  IndInv'
<1>1. StoreInv'
  BY DEF IndInv, StoreInv, PutBegin
<1>2. PICK n \in Nodes, body \in Bodies :
        Set(h, IF DecodeAccepts(body) /\ Validate(Decoded(body))
               THEN [NoHandler EXCEPT !.kind = "put", !.at = n, !.step = "save",
                                      !.cfg = Decoded(body)]
               ELSE NoHandler)
  BY DEF PutBegin
<1>3. CASE DecodeAccepts(body) /\ Validate(Decoded(body))
  <2> DEFINE r == [NoHandler EXCEPT !.kind = "put", !.at = n, !.step = "save",
                                    !.cfg = Decoded(body)]
  <2>1. Set(h, r) /\ Decoded(body) \in Known
    BY <1>2, <1>3, DecodedKnown
  <2>2. r \in Request /\ ServesInv(r)
    BY <2>1, NoHandlerFits DEF Request, ServesInv
  <2> QED
    BY <1>1, <2>1, <2>2, SetKeeps DEF IndInv
<1>4. CASE ~(DecodeAccepts(body) /\ Validate(Decoded(body)))
  BY <1>1, <1>2, <1>4, EndKeeps
<1> QED
  BY <1>3, <1>4

\* A write begins with a complete configuration from the cache, or with none.
LEMMA WriteBeginKeeps ==
  ASSUME IndInv, NEW h \in Handlers, WriteBegin(h)
  PROVE  IndInv'
<1>1. StoreInv' /\ answered \in Nat
  BY DEF IndInv, StoreInv, WriteBegin
<1>2. PICK n \in Nodes :
        LET begun == [NoHandler EXCEPT !.kind = "write", !.at = n, !.from = answered]
        IN  Set(h, IF Fresh(n)
                   THEN [begun EXCEPT !.step = "write", !.cfg = cache[n].cfg, !.gen = cache[n].gen]
                   ELSE [begun EXCEPT !.step = "load"])
  BY DEF WriteBegin
<1> DEFINE begun == [NoHandler EXCEPT !.kind = "write", !.at = n, !.from = answered]
           hit == [begun EXCEPT !.step = "write", !.cfg = cache[n].cfg, !.gen = cache[n].gen]
           miss == [begun EXCEPT !.step = "load"]
<1>3. begun \in Request /\ begun.kind = "write"
  BY <1>1, NoHandlerFits DEF Request
<1>4. CASE Fresh(n)
  <2>1. cache[n].cfg \in Complete /\ cache[n].gen \in Nat /\ cache[n].cfg \in Known
    BY <1>4 DEF Fresh, IndInv, StoreInv, Entry, Complete
  <2>2. Set(h, hit)
    BY <1>2, <1>4
  <2> HIDE DEF begun
  <2>3. hit \in Request /\ ServesInv(hit)
    BY <1>3, <2>1 DEF Request, ServesInv
  <2> QED
    BY <1>1, <2>2, <2>3, SetKeeps DEF IndInv
<1>5. CASE ~Fresh(n)
  <2>1. Set(h, miss)
    BY <1>2, <1>5
  <2> HIDE DEF begun
  <2>2. miss \in Request /\ ServesInv(miss)
    BY <1>3 DEF Request, ServesInv
  <2> QED
    BY <1>1, <2>1, <2>2, SetKeeps DEF IndInv
<1> QED
  BY <1>4, <1>5

\* A miss takes the record with its defaults, or creates a complete one.
LEMMA LoadKeeps ==
  ASSUME IndInv, NEW h \in Handlers, Load(h)
  PROVE  IndInv'
<1> DEFINE r == handler[h]
           found == [r EXCEPT !.step = "fill", !.cfg = WithDefaults(stored.cfg), !.gen = stored.gen]
           first == [r EXCEPT !.step = "save", !.cfg = WithDefaults(NoConfig)]
<1>1. r \in Request /\ ServesInv(r) /\ r.step = "load"
  BY DEF IndInv, HandlerInv, Load
<1>2. StoreInv'
  BY DEF IndInv, StoreInv, Load
<1>3. r.kind # "put"
  BY <1>1 DEF ServesInv
<1>4. CASE stored # Nil
  <2>1. stored.cfg \in Known /\ stored.gen \in Nat
    BY <1>4 DEF IndInv, StoreInv
  <2>2. WithDefaults(stored.cfg) \in Complete /\ WithDefaults(stored.cfg) \in Known
    BY <2>1, WithDefaultsCompletes DEF Complete
  <2>3. found \in Request /\ ServesInv(found)
    BY <1>1, <1>3, <2>1, <2>2 DEF Request, ServesInv
  <2>4. Set(h, found)
    BY <1>4 DEF Load
  <2> QED
    BY <1>2, <2>3, <2>4, SetKeeps DEF IndInv
<1>5. CASE stored = Nil /\ AutoCreate
  <2>1. WithDefaults(NoConfig) \in Complete /\ WithDefaults(NoConfig) \in Known
    BY NoConfigKnown, WithDefaultsCompletes DEF Complete
  <2>2. first \in Request /\ ServesInv(first)
    BY <1>1, <2>1 DEF Request, ServesInv
  <2>3. Set(h, first)
    BY <1>5 DEF Load
  <2> QED
    BY <1>2, <2>2, <2>3, SetKeeps DEF IndInv
<1>6. CASE stored = Nil /\ ~AutoCreate
  BY <1>2, <1>6, EndKeeps DEF Load
<1> QED
  BY <1>4, <1>5, <1>6

\* store caches what the write works with.
LEMMA FillKeeps ==
  ASSUME IndInv, NEW h \in Handlers, Fill(h)
  PROVE  IndInv'
<1> DEFINE r == handler[h]
           entry == [cfg |-> r.cfg, gen |-> r.gen, fresh |-> TRUE]
           next == [r EXCEPT !.step = "write"]
<1>1. r \in Request /\ ServesInv(r) /\ r.step = "fill" /\ r.kind # "put"
  BY DEF IndInv, HandlerInv, ServesInv, Fill
<1>2. next \in Request /\ ServesInv(next) /\ Set(h, next)
  BY <1>1 DEF Request, ServesInv, Fill, Goto
<1>3. HandlerInv'
  BY <1>2, SetKeeps DEF IndInv
<1>4. entry \in Entry
  BY <1>1 DEF Entry, ServesInv, Request
<1>5. cache' = [cache EXCEPT ![r.at] = entry] /\ UNCHANGED <<stored, saved, answered>>
  BY DEF Fill
<1> HIDE DEF entry
<1>6. StoreInv'
  BY <1>4, <1>5 DEF IndInv, StoreInv
<1> QED
  BY <1>3, <1>6 DEF IndInv

\* PutEnd, the TTL and a crash take entries and requests away.
LEMMA ForgetKeeps ==
  ASSUME IndInv
  PROVE  /\ \A h \in Handlers : PutEnd(h) => IndInv'
         /\ \A n \in Nodes : Expire(n) \/ Crash(n) => IndInv'
<1>1. ASSUME NEW h \in Handlers, PutEnd(h)
      PROVE  IndInv'
  <2>1. cache' = [cache EXCEPT ![handler[h].at] = Nil] /\ UNCHANGED <<stored, saved>>
        /\ Set(h, NoHandler) /\ answered' \in {handler[h].gen, answered}
    BY <1>1 DEF PutEnd
  <2>2. handler[h].gen \in Nat
    BY DEF IndInv, HandlerInv, Request
  <2>3. StoreInv'
    BY <2>1, <2>2 DEF IndInv, StoreInv
  <2> QED
    BY <2>1, <2>3, EndKeeps
<1>2. ASSUME NEW n \in Nodes, Expire(n)
      PROVE  IndInv'
  <2>1. cache[n] \in Entry
    BY <1>2 DEF Expire, Fresh, IndInv, StoreInv
  <2>2. cache' = [cache EXCEPT ![n] = [cache[n] EXCEPT !.fresh = FALSE]]
        /\ UNCHANGED <<stored, saved, answered, handler>>
    BY <1>2 DEF Expire
  <2>3. [cache[n] EXCEPT !.fresh = FALSE] \in Entry
    BY <2>1 DEF Entry
  <2>4. StoreInv'
    BY <2>2, <2>3 DEF IndInv, StoreInv
  <2>5. HandlerInv'
    BY <2>2 DEF IndInv, HandlerInv
  <2> QED
    BY <2>4, <2>5 DEF IndInv
<1>3. ASSUME NEW n \in Nodes, Crash(n)
      PROVE  IndInv'
  <2>1. cache' = [cache EXCEPT ![n] = Nil] /\ UNCHANGED <<stored, saved, answered>>
        /\ handler' = [h \in Handlers |-> IF handler[h].at = n THEN NoHandler ELSE handler[h]]
    BY <1>3 DEF Crash
  <2>2. StoreInv'
    BY <2>1 DEF IndInv, StoreInv
  <2>3. HandlerInv'
    BY <2>1, NoHandlerFits DEF IndInv, HandlerInv
  <2> QED
    BY <2>2, <2>3 DEF IndInv
<1> QED
  BY <1>1, <1>2, <1>3

\* Every step keeps the invariant.
LEMMA NextInd == IndInv /\ [Next]_vars => IndInv'
<1> SUFFICES ASSUME IndInv, [Next]_vars
             PROVE  IndInv'
  OBVIOUS
<1>1. ASSUME NEW h \in Handlers, Fail(h) \/ WriteEnd(h)
      PROVE  IndInv'
  <2>1. Set(h, NoHandler) /\ StoreInv'
    BY <1>1 DEF Fail, WriteEnd, IndInv, StoreInv
  <2> QED
    BY <2>1, EndKeeps
<1>2. ASSUME NEW h \in Handlers, Run(h)
      PROVE  IndInv'
  BY <1>1, <1>2, SaveKeeps, ProvisionKeeps, LoadKeeps, FillKeeps, ForgetKeeps DEF Run
<1>3. CASE UNCHANGED vars
  BY <1>3 DEF vars, IndInv, StoreInv, HandlerInv
<1> QED
  BY <1>1, <1>2, <1>3, PutBeginKeeps, WriteBeginKeeps, ForgetKeeps DEF Next

\* The invariant says what the configurations promise.
LEMMA IndImplies == IndInv => ConfigsAreSound
<1> SUFFICES ASSUME IndInv
             PROVE  ConfigsAreSound
  OBVIOUS
<1>1. StoredIsValid
  BY DEF IndInv, StoreInv, Known, StoredIsValid
<1>2. \A h \in Handlers : handler[h].step \in {"fill", "write"} => handler[h].cfg \in Complete
  BY DEF IndInv, HandlerInv, ServesInv
<1>3. \A n \in Nodes : cache[n] # Nil => cache[n].cfg \in Complete
  BY DEF IndInv, StoreInv, Entry
<1>4. \A c \in Configs : c \in Complete
  BY <1>2, <1>3 DEF Configs
<1>5. EffectiveIsComplete
  BY <1>4 DEF EffectiveIsComplete, Complete
<1>6. DefaultsMirrored
  BY DefaultsAgree DEF DefaultsMirrored
<1> QED
  BY <1>1, <1>5, <1>6 DEF ConfigsAreSound

\* Whatever way a configuration comes (PUT, first use, record, cache), and
\* however requests, expiries and crashes interleave, it is valid, used with its
\* defaults (WithDefaults) and reported with the right ones (defaultedFields).
THEOREM ConfigurationsAreSound == Spec => []ConfigsAreSound
BY InitInd, NextInd, IndImplies, PTL DEF Spec
=============================================================================
