--------------------------- MODULE SlFifoAppProofs ---------------------------
(***************************************************************************)
(* Proofs about SlFifoApp: what start, stop and the clearing of a halt     *)
(* leave behind, whichever steps the other parties take in between and     *)
(* whichever call fails.  The inductive invariant says, for each callback, *)
(* what has been done when the first i of its steps are over.              *)
(***************************************************************************)
EXTENDS SlFifoApp, TLAPS

\* The steps of all callbacks.
StepNames ==
  {"speed", "enableProd", "enableCons", "createU", "createM", "flush", "xferU", "xferM",
   "activate", "deactivate", "destroyU", "destroyM", "disableProd", "disableCons",
   "nak", "resetU", "xferUagain", "resetM", "xferMagain", "unnak", "unstall"}

\* What is left of the steps s after the first i of them.
Rest(s, i) == SubSeq(s, i + 1, Len(s))

\* The running callback has done i steps of s, and has more to do.
Reached(s, i) == i \in 0 .. (Len(s) - 1) /\ todo = Rest(s, i)

\* SETCONF of an active application.
RestartSteps == StopSteps \o StartSteps

AppTypeOK ==
  /\ todo \in Seq(StepNames)
  /\ speed \in DOMAIN PacketSize
  /\ glIsApplnActive \in BOOLEAN /\ mayFail \in BOOLEAN
  /\ worksOnM \subseteq UncheckedCalls
  /\ ep \subseteq Endpoints /\ nak \subseteq {"prod"}
  /\ chan \in [Channels -> {"none", "idle", "running"}]
  /\ bufSize \in [Channels -> Int]
  /\ held \subseteq Channels /\ wasReset \subseteq Channels
  /\ unnoticed \in [Channels -> SUBSET UncheckedCalls]

\* Only a running channel holds data.
HeldInv == \A c \in held : chan[c] = "running"

Sized(c) == bufSize[c] = DmaBufSize(speed)

\* A channel between callbacks of an active application, and of a stopped one.
Alive(c) == chan[c] = "running" \/ (chan[c] = "idle" /\ "xfer" \in unnoticed[c])
Gone(c)  == chan[c] = "none" \/ ("destroy" \in unnoticed[c] /\ CanFail("destroy", c))

Ready ==
  /\ glIsApplnActive /\ ep = Endpoints /\ nak = {}
  /\ Alive("U") /\ Alive("M") /\ Sized("U") /\ Sized("M")

Off == ~glIsApplnActive /\ ep = {} /\ nak = {} /\ Gone("U") /\ Gone("M")

\* After i steps of StopSteps.
Stopping(i) ==
  /\ nak = {} /\ (glIsApplnActive <=> i = 0)
  /\ i >= 2 => Gone("U")
  /\ i >= 3 => Gone("M")
  /\ i >= 4 => "prod" \notin ep

\* After i steps of StartSteps.
Starting(i) ==
  /\ nak = {} /\ ~glIsApplnActive
  /\ i >= 2 => "prod" \in ep
  /\ i >= 3 => "cons" \in ep
  /\ i < 4 => Gone("U")
  /\ i >= 4 => chan["U"] = (IF i < 7 THEN "idle" ELSE "running") /\ Sized("U")
  /\ i < 5 => Gone("M")
  /\ i >= 5 => chan["M"] = (IF i < 8 THEN "idle" ELSE "running") /\ Sized("M")

\* After i steps of ClearProd or ClearCons, which reset channel c if the call works.
Clearing(c, i) ==
  /\ glIsApplnActive /\ ep = Endpoints /\ Sized("U") /\ Sized("M")
  /\ nak = IF i \in 1..3 THEN {"prod"} ELSE {}
  /\ \A d \in Channels \ {c} : Alive(d) /\ (i < 4 => d \notin wasReset)
  /\ i < 2 => c \notin wasReset
  /\ i # 2 => Alive(c)
  /\ chan[c] \in {"idle", "running"}
  /\ c = "U" /\ i \in 2..3 /\ "U" \in wasReset => "U" \notin held

Phase ==
  \/ todo = <<>> /\ (Ready \/ Off)
  \/ \E i \in 0..4 :
       (Reached(StopSteps, i) \/ Reached(RestartSteps, i)) /\ Stopping(i)
  \/ \E i \in 0..8 :
       (Reached(StartSteps, i) \/ Reached(RestartSteps, i + 5)) /\ Starting(i)
  \/ \E i \in 0..4 : Reached(ClearProd, i) /\ Clearing("U", i)
  \/ \E i \in 0..4 : Reached(ClearCons, i) /\ Clearing("M", i)
  \/ Reached(ClearOther, 0) /\ Ready

AppInv == AppTypeOK /\ HeldInv /\ LostForAReason /\ Phase

-----------------------------------------------------------------------------
(* Sequences of steps. *)

LEMMA TailAt ==
  ASSUME NEW S, NEW s \in Seq(S), s # <<>>
  PROVE  /\ Tail(s) \in Seq(S) /\ Len(Tail(s)) = Len(s) - 1
         /\ \A k \in 1 .. (Len(s) - 1) : Tail(s)[k] = s[k + 1]
OBVIOUS

LEMMA SameSteps ==
  ASSUME NEW S, NEW s \in Seq(S), NEW t \in Seq(S), Len(s) = Len(t),
         \A k \in 1 .. Len(s) : s[k] = t[k]
  PROVE  s = t
OBVIOUS

LEMMA NoStepsLeft ==
  ASSUME NEW S, NEW s \in Seq(S), Len(s) = 0
  PROVE  s = <<>>
OBVIOUS

LEMMA ConcatAt ==
  ASSUME NEW S, NEW s \in Seq(S), NEW t \in Seq(S)
  PROVE  /\ s \o t \in Seq(S) /\ Len(s \o t) = Len(s) + Len(t)
         /\ \A k \in 1 .. Len(s) : (s \o t)[k] = s[k]
         /\ \A k \in 1 .. Len(t) : (s \o t)[k + Len(s)] = t[k]
OBVIOUS

\* The steps that are left: the first of them, and the rest when it is done.
LEMMA RestStep ==
  ASSUME NEW s \in Seq(StepNames)
  PROVE  /\ Rest(s, 0) = s
         /\ \A i \in 0 .. (Len(s) - 1) :
              /\ Rest(s, i) # <<>> /\ Head(Rest(s, i)) = s[i + 1]
              /\ Tail(Rest(s, i)) = Rest(s, i + 1)
              /\ i = Len(s) - 1 => Tail(Rest(s, i)) = <<>>
<1>1. Len(s) \in Nat
  OBVIOUS
<1>2. Rest(s, 0) = s
  BY DEF Rest
<1>3. ASSUME NEW i \in 0 .. (Len(s) - 1)
      PROVE  /\ Rest(s, i) # <<>> /\ Head(Rest(s, i)) = s[i + 1]
             /\ Tail(Rest(s, i)) = Rest(s, i + 1)
             /\ i = Len(s) - 1 => Tail(Rest(s, i)) = <<>>
  <2>1. /\ Rest(s, i) \in Seq(StepNames) /\ Len(Rest(s, i)) = Len(s) - i
        /\ \A k \in 1 .. (Len(s) - i) : Rest(s, i)[k] = s[i + k]
    BY <1>1 DEF Rest
  <2>2. /\ Rest(s, i + 1) \in Seq(StepNames) /\ Len(Rest(s, i + 1)) = Len(s) - i - 1
        /\ \A k \in 1 .. (Len(s) - i - 1) : Rest(s, i + 1)[k] = s[i + 1 + k]
    BY <1>1 DEF Rest
  <2>3. Rest(s, i) # <<>> /\ Head(Rest(s, i)) = s[i + 1]
    BY <1>1, <2>1
  <2>4. /\ Tail(Rest(s, i)) \in Seq(StepNames) /\ Len(Tail(Rest(s, i))) = Len(s) - i - 1
        /\ \A k \in 1 .. (Len(s) - i - 1) : Tail(Rest(s, i))[k] = s[i + 1 + k]
    <3> DEFINE r == Rest(s, i)
    <3>1. r \in Seq(StepNames) /\ r # <<>> /\ Len(r) = Len(s) - i
      BY <2>1, <2>3
    <3>2. \A k \in 1 .. (Len(s) - i) : r[k] = s[i + k]
      BY <2>1
    <3> HIDE DEF r
    <3>3. /\ Tail(r) \in Seq(StepNames) /\ Len(Tail(r)) = Len(r) - 1
          /\ \A k \in 1 .. (Len(r) - 1) : Tail(r)[k] = r[k + 1]
      BY <3>1, TailAt
    <3>4. \A k \in 1 .. (Len(s) - i - 1) :
            k \in 1 .. (Len(r) - 1) /\ k + 1 \in 1 .. (Len(s) - i) /\ i + (k + 1) = i + 1 + k
      BY <1>1, <3>1
    <3>5. \A k \in 1 .. (Len(s) - i - 1) : Tail(r)[k] = s[i + 1 + k]
      BY <3>2, <3>3, <3>4
    <3>6. Len(Tail(r)) = Len(s) - i - 1
      BY <1>1, <3>1, <3>3
    <3> QED BY <3>3, <3>5, <3>6 DEF r
  <2>5. Tail(Rest(s, i)) = Rest(s, i + 1)
    <3>1. /\ Len(Tail(Rest(s, i))) = Len(Rest(s, i + 1))
          /\ \A k \in 1 .. Len(Tail(Rest(s, i))) : Tail(Rest(s, i))[k] = Rest(s, i + 1)[k]
      BY <2>2, <2>4
    <3> QED BY <2>2, <2>4, <3>1, SameSteps
  <2>6. i = Len(s) - 1 => Tail(Rest(s, i)) = <<>>
    <3>1. i = Len(s) - 1 => Len(Tail(Rest(s, i))) = 0
      BY <1>1, <2>4
    <3> QED BY <2>4, <3>1, NoStepsLeft
  <2> QED BY <2>3, <2>5, <2>6
<1> QED BY <1>2, <1>3

\* The callbacks, step by step.
LEMMA StopNames ==
  /\ StopSteps \in Seq(StepNames) /\ StopSteps # <<>> /\ Len(StopSteps) = 5
  /\ StopSteps[1] = "deactivate" /\ StopSteps[2] = "destroyU"
  /\ StopSteps[3] = "destroyM" /\ StopSteps[4] = "disableProd"
  /\ StopSteps[5] = "disableCons"
BY DEF StopSteps, StepNames

LEMMA StartNames ==
  /\ StartSteps \in Seq(StepNames) /\ StartSteps # <<>> /\ Len(StartSteps) = 9
  /\ StartSteps[1] = "speed"
  /\ StartSteps[2] = "enableProd" /\ StartSteps[3] = "enableCons"
  /\ StartSteps[4] = "createU" /\ StartSteps[5] = "createM"
  /\ StartSteps[6] = "flush" /\ StartSteps[7] = "xferU"
  /\ StartSteps[8] = "xferM" /\ StartSteps[9] = "activate"
BY DEF StartSteps, StepNames

LEMMA RestartNames ==
  /\ RestartSteps \in Seq(StepNames) /\ RestartSteps # <<>> /\ Len(RestartSteps) = 14
  /\ \A k \in 1..5 : RestartSteps[k] = StopSteps[k]
  /\ \A k \in 1..9 : RestartSteps[k + 5] = StartSteps[k]
<1>1. /\ RestartSteps \in Seq(StepNames) /\ Len(RestartSteps) = Len(StopSteps) + Len(StartSteps)
      /\ \A k \in 1 .. Len(StopSteps) : RestartSteps[k] = StopSteps[k]
      /\ \A k \in 1 .. Len(StartSteps) : RestartSteps[k + Len(StopSteps)] = StartSteps[k]
  <2> DEFINE s == StopSteps
             t == StartSteps
  <2>1. s \in Seq(StepNames) /\ t \in Seq(StepNames)
    BY StopNames, StartNames
  <2> HIDE DEF s, t
  <2>2. /\ s \o t \in Seq(StepNames) /\ Len(s \o t) = Len(s) + Len(t)
        /\ \A k \in 1 .. Len(s) : (s \o t)[k] = s[k]
        /\ \A k \in 1 .. Len(t) : (s \o t)[k + Len(s)] = t[k]
    BY <2>1, ConcatAt
  <2> QED BY <2>2 DEF RestartSteps, s, t
<1>2. Len(RestartSteps) = 14
  BY <1>1, StopNames, StartNames
<1>3. RestartSteps # <<>>
  BY <1>2
<1> QED BY <1>1, <1>2, <1>3, StopNames, StartNames

LEMMA ClearProdNames ==
  /\ ClearProd \in Seq(StepNames) /\ ClearProd # <<>> /\ Len(ClearProd) = 5
  /\ ClearProd[1] = "nak" /\ ClearProd[2] = "resetU" /\ ClearProd[3] = "xferUagain"
  /\ ClearProd[4] = "unnak" /\ ClearProd[5] = "unstall"
BY DEF ClearProd, StepNames

LEMMA ClearConsNames ==
  /\ ClearCons \in Seq(StepNames) /\ ClearCons # <<>> /\ Len(ClearCons) = 5
  /\ ClearCons[1] = "nak" /\ ClearCons[2] = "resetM" /\ ClearCons[3] = "xferMagain"
  /\ ClearCons[4] = "unnak" /\ ClearCons[5] = "unstall"
BY DEF ClearCons, StepNames

LEMMA ClearOtherNames ==
  /\ ClearOther \in Seq(StepNames) /\ ClearOther # <<>> /\ Len(ClearOther) = 1
  /\ ClearOther[1] = "unstall"
BY DEF ClearOther, StepNames

-----------------------------------------------------------------------------
(* A step of a callback: which one it is, and what it does to the phase. *)

LEMMA StepOf ==
  ASSUME Callback
  PROVE  /\ Connected /\ UNCHANGED <<appThread, speed, sdkVars>>
         /\ Head(todo) = "speed" => GetSpeed
         /\ Head(todo) = "enableProd" => SetEpConfig("enableProd", "prod", TRUE)
         /\ Head(todo) = "enableCons" => SetEpConfig("enableCons", "cons", TRUE)
         /\ Head(todo) = "disableProd" => SetEpConfig("disableProd", "prod", FALSE)
         /\ Head(todo) = "disableCons" => SetEpConfig("disableCons", "cons", FALSE)
         /\ Head(todo) = "createU" => ChannelCreate("createU", "U")
         /\ Head(todo) = "createM" => ChannelCreate("createM", "M")
         /\ Head(todo) = "flush" => FlushEps
         /\ Head(todo) = "xferU" => ChannelSetXfer("xferU", "U")
         /\ Head(todo) = "xferM" => ChannelSetXfer("xferM", "M")
         /\ Head(todo) = "activate" => Activate
         /\ Head(todo) = "deactivate" => Deactivate
         /\ Head(todo) = "destroyU" => ChannelDestroy("destroyU", "U")
         /\ Head(todo) = "destroyM" => ChannelDestroy("destroyM", "M")
         /\ Head(todo) = "nak" => SetEpNak("nak", TRUE)
         /\ Head(todo) = "unnak" => SetEpNak("unnak", FALSE)
         /\ Head(todo) = "resetU" => ChannelReset("resetU", "U")
         /\ Head(todo) = "resetM" => ChannelReset("resetM", "M")
         /\ Head(todo) = "xferUagain" => SetXferAgain("xferUagain", "U")
         /\ Head(todo) = "xferMagain" => SetXferAgain("xferMagain", "M")
         /\ Head(todo) = "unstall" => AckSetup
BY DEF Callback, GetSpeed, Step, SetEpConfig, ChannelCreate, FlushEps, ChannelSetXfer, Activate,
       Deactivate, ChannelDestroy, SetEpNak, ChannelReset, SetXferAgain, AckSetup

\* The thread is lost in a checked call, and for a reason.
Lost ==
  /\ Die /\ UNCHANGED <<speed, sdkVars, devVars>>
  /\ mayFail \/ ("destroy" \notin worksOnM /\ chan["M"] # "none")

LEMMA StopStep ==
  ASSUME AppTypeOK, Callback, NEW i \in 0..4, Stopping(i),
         Head(todo) = StopSteps[i + 1]
  PROVE  Lost \/ (Done /\ (i < 4 => Stopping(i + 1)') /\ (i = 4 => Off'))
<1> USE DEF AppTypeOK, Done, Endpoints, Channels, devVars, sdkVars, Lost, Stopping, Gone,
       CanFail, Works
<1>1. CASE i = 0
  <2>1. Head(todo) = "deactivate"
    BY <1>1, StopNames
  <2>2. Deactivate /\ UNCHANGED <<appThread, speed, sdkVars>>
    BY <2>1, StepOf
  <2>3. ~glIsApplnActive' /\ Done
    BY <2>2 DEF Deactivate
  <2>4. nak' = {}
    BY <2>2 DEF Deactivate
  <2>5. Stopping(i + 1)' /\ i # 4
    BY <1>1, <2>3, <2>4
  <2> HIDE DEF Stopping
  <2> QED BY <2>3, <2>5
<1>2. CASE i = 1
  <2>1. Head(todo) = "destroyU"
    BY <1>2, StopNames
  <2>2. ChannelDestroy("destroyU", "U") /\ UNCHANGED <<appThread, speed, sdkVars>>
    BY <2>1, StepOf
  <2> QED BY <1>2, <2>2 DEF ChannelDestroy, Succeeds, Fails
<1>3. CASE i = 2
  <2>1. Head(todo) = "destroyM"
    BY <1>3, StopNames
  <2>2. ChannelDestroy("destroyM", "M") /\ UNCHANGED <<appThread, speed, sdkVars>>
    BY <2>1, StepOf
  <2> QED BY <1>3, <2>2 DEF ChannelDestroy, Succeeds, Fails
<1>4. CASE i = 3
  <2>1. Head(todo) = "disableProd"
    BY <1>4, StopNames
  <2>2. SetEpConfig("disableProd", "prod", FALSE) /\ UNCHANGED <<appThread, speed, sdkVars>>
    BY <2>1, StepOf
  <2> QED BY <1>4, <2>2 DEF SetEpConfig
<1>5. CASE i = 4
  <2>1. Head(todo) = "disableCons"
    BY <1>5, StopNames
  <2>2. SetEpConfig("disableCons", "cons", FALSE) /\ UNCHANGED <<appThread, speed, sdkVars>>
    BY <2>1, StepOf
  <2>3. UNCHANGED <<glIsApplnActive, nak, chan, unnoticed>> /\ ~glIsApplnActive
    BY <1>5, <2>2 DEF SetEpConfig
  <2>4. (Done /\ ep' = ep \ {"cons"}) \/ Lost
    BY <2>2 DEF SetEpConfig
  <2>5. ep' = ep \ {"cons"} => ep' = {}
    BY <1>5
  <2>6. ep' = {} => Off'
    BY <1>5, <2>2, <2>3 DEF Off
  <2> QED BY <1>5, <2>4, <2>5, <2>6
<1> QED BY <1>1, <1>2, <1>3, <1>4, <1>5

LEMMA StartStep ==
  ASSUME AppTypeOK, Callback, NEW i \in 0..8, Starting(i),
         Head(todo) = StartSteps[i + 1]
  PROVE  Lost \/ (Done /\ (i < 8 => Starting(i + 1)') /\ (i = 8 => Ready'))
<1> USE DEF AppTypeOK, Done, Endpoints, Channels, devVars, sdkVars, Lost, Starting, Sized,
       Gone, CanFail, Works
<1>1. CASE i = 0
  <2>1. Head(todo) = "speed"
    BY <1>1, StartNames
  <2>2. GetSpeed /\ UNCHANGED <<appThread, speed, sdkVars>>
    BY <2>1, StepOf
  <2> QED BY <1>1, <2>2 DEF GetSpeed
<1>2. CASE i = 1
  <2>1. Head(todo) = "enableProd"
    BY <1>2, StartNames
  <2>2. SetEpConfig("enableProd", "prod", TRUE) /\ UNCHANGED <<appThread, speed, sdkVars>>
    BY <2>1, StepOf
  <2> QED BY <1>2, <2>2 DEF SetEpConfig
<1>3. CASE i = 2
  <2>1. Head(todo) = "enableCons"
    BY <1>3, StartNames
  <2>2. SetEpConfig("enableCons", "cons", TRUE) /\ UNCHANGED <<appThread, speed, sdkVars>>
    BY <2>1, StepOf
  <2> QED BY <1>3, <2>2 DEF SetEpConfig
<1>4. CASE i = 3
  <2>1. Head(todo) = "createU"
    BY <1>4, StartNames
  <2>2. ChannelCreate("createU", "U") /\ UNCHANGED <<appThread, speed, sdkVars>>
    BY <2>1, StepOf
  <2> QED BY <1>4, <2>2 DEF ChannelCreate
<1>5. CASE i = 4
  <2>1. Head(todo) = "createM"
    BY <1>5, StartNames
  <2>2. ChannelCreate("createM", "M") /\ UNCHANGED <<appThread, speed, sdkVars>>
    BY <2>1, StepOf
  <2> QED BY <1>5, <2>2 DEF ChannelCreate
<1>6. CASE i = 5
  <2>1. Head(todo) = "flush"
    BY <1>6, StartNames
  <2>2. FlushEps /\ UNCHANGED <<appThread, speed, sdkVars>>
    BY <2>1, StepOf
  <2> QED BY <1>6, <2>2 DEF FlushEps
<1>7. CASE i = 6
  <2>1. Head(todo) = "xferU"
    BY <1>7, StartNames
  <2>2. ChannelSetXfer("xferU", "U") /\ UNCHANGED <<appThread, speed, sdkVars>>
    BY <2>1, StepOf
  <2> QED BY <1>7, <2>2 DEF ChannelSetXfer
<1>8. CASE i = 7
  <2>1. Head(todo) = "xferM"
    BY <1>8, StartNames
  <2>2. ChannelSetXfer("xferM", "M") /\ UNCHANGED <<appThread, speed, sdkVars>>
    BY <2>1, StepOf
  <2> QED BY <1>8, <2>2 DEF ChannelSetXfer
<1>9. CASE i = 8
  <2>1. Head(todo) = "activate"
    BY <1>9, StartNames
  <2>2. Activate /\ UNCHANGED <<appThread, speed, sdkVars>>
    BY <2>1, StepOf
  <2>3. glIsApplnActive' /\ Done
    BY <2>2 DEF Activate
  <2>4. UNCHANGED <<ep, nak, chan, bufSize, speed>>
    BY <2>2 DEF Activate
  <2>5. /\ ep \subseteq {"prod", "cons"} /\ "prod" \in ep /\ "cons" \in ep
        /\ nak = {} /\ chan["U"] = "running" /\ chan["M"] = "running"
        /\ bufSize["U"] = DmaBufSize(speed) /\ bufSize["M"] = DmaBufSize(speed)
    BY <1>9
  <2>6. ep = {"prod", "cons"}
    BY <2>5
  <2>7. Ready'
    BY <2>3, <2>4, <2>5, <2>6 DEF Ready, Alive
  <2> QED BY <1>9, <2>3, <2>7
<1> QED BY <1>1, <1>2, <1>3, <1>4, <1>5, <1>6, <1>7, <1>8, <1>9

LEMMA ClearProdStep ==
  ASSUME AppTypeOK, HeldInv, Callback, NEW i \in 0..4, Clearing("U", i),
         Head(todo) = ClearProd[i + 1]
  PROVE  Done /\ (i < 4 => Clearing("U", i + 1)') /\ (i = 4 => Ready')
<1> USE DEF AppTypeOK, Done, Endpoints, Channels, devVars, sdkVars, Clearing, Sized,
       Alive, CanFail, Works
<1>1. CASE i = 0
  <2>1. Head(todo) = "nak"
    BY <1>1, ClearProdNames
  <2>2. SetEpNak("nak", TRUE) /\ UNCHANGED <<appThread, speed, sdkVars>>
    BY <2>1, StepOf
  <2> QED BY <1>1, <2>2 DEF SetEpNak
<1>2. CASE i = 1
  <2>1. Head(todo) = "resetU"
    BY <1>2, ClearProdNames
  <2>2. ChannelReset("resetU", "U") /\ UNCHANGED <<appThread, speed, sdkVars>>
    BY <2>1, StepOf
  <2> QED BY <1>2, <2>2 DEF ChannelReset, Succeeds, Fails
<1>3. CASE i = 2
  <2>1. Head(todo) = "xferUagain"
    BY <1>3, ClearProdNames
  <2>2. SetXferAgain("xferUagain", "U") /\ UNCHANGED <<appThread, speed, sdkVars>>
    BY <2>1, StepOf
  <2> QED BY <1>3, <2>2 DEF SetXferAgain, Succeeds, Fails
<1>4. CASE i = 3
  <2>1. Head(todo) = "unnak"
    BY <1>4, ClearProdNames
  <2>2. SetEpNak("unnak", FALSE) /\ UNCHANGED <<appThread, speed, sdkVars>>
    BY <2>1, StepOf
  <2> QED BY <1>4, <2>2 DEF SetEpNak
<1>5. CASE i = 4
  <2>1. Head(todo) = "unstall"
    BY <1>5, ClearProdNames
  <2>2. AckSetup /\ UNCHANGED <<appThread, speed, sdkVars>>
    BY <2>1, StepOf
  <2> QED BY <1>5, <2>2 DEF AckSetup, Ready
<1> QED BY <1>1, <1>2, <1>3, <1>4, <1>5

LEMMA ClearConsStep ==
  ASSUME AppTypeOK, HeldInv, Callback, NEW i \in 0..4, Clearing("M", i),
         Head(todo) = ClearCons[i + 1]
  PROVE  Done /\ (i < 4 => Clearing("M", i + 1)') /\ (i = 4 => Ready')
<1> USE DEF AppTypeOK, Done, Endpoints, Channels, devVars, sdkVars, Clearing, Sized,
       Alive, CanFail, Works
<1>1. CASE i = 0
  <2>1. Head(todo) = "nak"
    BY <1>1, ClearConsNames
  <2>2. SetEpNak("nak", TRUE) /\ UNCHANGED <<appThread, speed, sdkVars>>
    BY <2>1, StepOf
  <2> QED BY <1>1, <2>2 DEF SetEpNak
<1>2. CASE i = 1
  <2>1. Head(todo) = "resetM"
    BY <1>2, ClearConsNames
  <2>2. ChannelReset("resetM", "M") /\ UNCHANGED <<appThread, speed, sdkVars>>
    BY <2>1, StepOf
  <2> QED BY <1>2, <2>2 DEF ChannelReset, Succeeds, Fails
<1>3. CASE i = 2
  <2>1. Head(todo) = "xferMagain"
    BY <1>3, ClearConsNames
  <2>2. SetXferAgain("xferMagain", "M") /\ UNCHANGED <<appThread, speed, sdkVars>>
    BY <2>1, StepOf
  <2> QED BY <1>3, <2>2 DEF SetXferAgain, Succeeds, Fails
<1>4. CASE i = 3
  <2>1. Head(todo) = "unnak"
    BY <1>4, ClearConsNames
  <2>2. SetEpNak("unnak", FALSE) /\ UNCHANGED <<appThread, speed, sdkVars>>
    BY <2>1, StepOf
  <2> QED BY <1>4, <2>2 DEF SetEpNak
<1>5. CASE i = 4
  <2>1. Head(todo) = "unstall"
    BY <1>5, ClearConsNames
  <2>2. AckSetup /\ UNCHANGED <<appThread, speed, sdkVars>>
    BY <2>1, StepOf
  <2> QED BY <1>5, <2>2 DEF AckSetup, Ready
<1> QED BY <1>1, <1>2, <1>3, <1>4, <1>5

LEMMA ClearOtherStep ==
  ASSUME Callback, Ready, Head(todo) = ClearOther[1]
  PROVE  Done /\ Ready'
<1>1. Head(todo) = "unstall"
  BY ClearOtherNames
<1>2. AckSetup /\ UNCHANGED <<appThread, speed, sdkVars>>
  BY <1>1, StepOf
<1> QED BY <1>2 DEF AckSetup, Done, devVars, Ready, Sized, Alive

\* One step further in the steps s, of which n is the last index.
LEMMA Advance ==
  ASSUME NEW s \in Seq(StepNames), NEW n \in Nat, Len(s) = n + 1, NEW i \in 0..n,
         Reached(s, i)
  PROVE  /\ todo # <<>> /\ Head(todo) = s[i + 1]
         /\ Done /\ i < n => Reached(s, i + 1)'
         /\ Done /\ i = n => todo' = <<>>
<1>1. i \in 0 .. (Len(s) - 1) /\ todo = Rest(s, i)
  BY DEF Reached
<1>2. todo # <<>> /\ Head(todo) = s[i + 1] /\ Tail(todo) = Rest(s, i + 1)
  BY <1>1, RestStep
<1>3. i = n => Tail(todo) = <<>>
  BY <1>1, RestStep
<1>4. i < n => i + 1 \in 0 .. (Len(s) - 1)
  OBVIOUS
<1>5. Reached(s, i + 1)' <=> i + 1 \in 0 .. (Len(s) - 1) /\ todo' = Rest(s, i + 1)
  BY DEF Reached, Rest
<1> QED BY <1>2, <1>3, <1>4, <1>5 DEF Done

\* The phase does not depend on what the other parties do.
LEMMA PhaseKept ==
  ASSUME Phase, UNCHANGED <<todo, devVars, speed, sdkVars>>
  PROVE  Phase'
<1>1. /\ UNCHANGED <<todo, speed, mayFail, worksOnM>>
      /\ UNCHANGED <<glIsApplnActive, ep, nak, chan, bufSize, held, wasReset, unnoticed>>
  BY DEF devVars, sdkVars
<1>2. Ready => Ready'
  BY <1>1 DEF Ready, Sized, Alive
<1>3. Off => Off'
  BY <1>1 DEF Off, Gone, CanFail, Works
<1>4. \A i \in 0..4 : Stopping(i) => Stopping(i)'
  BY <1>1 DEF Stopping, Gone, CanFail, Works
<1>5. \A i \in 0..8 : Starting(i) => Starting(i)'
  BY <1>1 DEF Starting, Sized, Gone, CanFail, Works
<1>6. \A c \in Channels, i \in 0..4 : Clearing(c, i) => Clearing(c, i)'
  BY <1>1 DEF Clearing, Sized, Alive
<1>7. \A s \in {StopSteps, RestartSteps, StartSteps, ClearProd, ClearCons, ClearOther},
         i \in Int : Reached(s, i) => Reached(s, i)'
  BY <1>1 DEF Reached, Rest
<1>8. \A i \in 0..8 : i \in Int /\ i + 5 \in Int
  OBVIOUS
<1>9. 0 \in Int /\ "U" \in Channels /\ "M" \in Channels
  BY DEF Channels
<1> QED BY <1>1, <1>2, <1>3, <1>4, <1>5, <1>6, <1>7, <1>8, <1>9 DEF Phase

LEMMA PhaseStep ==
  ASSUME AppTypeOK, HeldInv, Phase, Callback
  PROVE  Phase' /\ (Done \/ Lost)
<1>1. Lost => Phase'
  BY PhaseKept DEF Lost, Die
<1>2. todo # <<>>
  BY DEF Callback, GetSpeed, Step, SetEpConfig, ChannelCreate, FlushEps, ChannelSetXfer, Activate,
     Deactivate, ChannelDestroy, SetEpNak, ChannelReset, SetXferAgain, AckSetup
<1>3. ASSUME NEW i \in 0..4, Reached(StopSteps, i), Stopping(i)
      PROVE  Phase' /\ (Done \/ Lost)
  <2>1. /\ Head(todo) = StopSteps[i + 1]
        /\ Done /\ i < 4 => Reached(StopSteps, i + 1)'
        /\ Done /\ i = 4 => todo' = <<>>
    BY <1>3, StopNames, Advance, 4 + 1 = 5, 4 \in Nat
  <2>2. Lost \/ (Done /\ (i < 4 => Stopping(i + 1)') /\ (i = 4 => Off'))
    BY <1>3, <2>1, StopStep
  <2>3. i < 4 => i + 1 \in 0..4
    OBVIOUS
  <2>4. ~Lost /\ i < 4 => Phase'
    BY <2>1, <2>2, <2>3 DEF Phase
  <2>5. ~Lost /\ i = 4 => Phase'
    BY <2>1, <2>2 DEF Phase
  <2> QED BY <1>1, <2>2, <2>4, <2>5
<1>4. ASSUME NEW i \in 0..4, Reached(RestartSteps, i), Stopping(i)
      PROVE  Phase' /\ (Done \/ Lost)
  <2>1. /\ Head(todo) = RestartSteps[i + 1]
        /\ Done => Reached(RestartSteps, i + 1)'
    BY <1>4, RestartNames, Advance, 13 + 1 = 14, 13 \in Nat, i \in 0..13, i < 13
  <2>2. RestartSteps[i + 1] = StopSteps[i + 1]
    BY RestartNames
  <2>3. Lost \/ (Done /\ (i < 4 => Stopping(i + 1)') /\ (i = 4 => Off'))
    BY <1>4, <2>1, <2>2, StopStep
  <2>4. i < 4 => i + 1 \in 0..4
    OBVIOUS
  <2>5. ~Lost /\ i < 4 => Phase'
    BY <2>1, <2>3, <2>4 DEF Phase
  <2>6. Off' => Starting(0)'
    BY DEF Off, Starting
  <2>7. ~Lost /\ i = 4 => Phase'
    <3>1. i = 4 => i + 1 = 0 + 5 /\ 0 \in 0..8
      OBVIOUS
    <3> QED BY <2>1, <2>3, <2>6, <3>1 DEF Phase
  <2> QED BY <1>1, <2>3, <2>5, <2>7
<1>5. ASSUME NEW i \in 0..8, Reached(StartSteps, i), Starting(i)
      PROVE  Phase' /\ (Done \/ Lost)
  <2>1. /\ Head(todo) = StartSteps[i + 1]
        /\ Done /\ i < 8 => Reached(StartSteps, i + 1)'
        /\ Done /\ i = 8 => todo' = <<>>
    BY <1>5, StartNames, Advance, 8 + 1 = 9, 8 \in Nat
  <2>2. Lost \/ (Done /\ (i < 8 => Starting(i + 1)') /\ (i = 8 => Ready'))
    BY <1>5, <2>1, StartStep
  <2>3. i < 8 => i + 1 \in 0..8
    OBVIOUS
  <2>4. ~Lost /\ i < 8 => Phase'
    BY <2>1, <2>2, <2>3 DEF Phase
  <2>5. ~Lost /\ i = 8 => Phase'
    BY <2>1, <2>2 DEF Phase
  <2> QED BY <1>1, <2>2, <2>4, <2>5
<1>6. ASSUME NEW i \in 0..8, Reached(RestartSteps, i + 5), Starting(i)
      PROVE  Phase' /\ (Done \/ Lost)
  <2>1. PICK k \in 0..13 : k = i + 5
    OBVIOUS
  <2>2. Reached(RestartSteps, k)
    BY <1>6, <2>1
  <2>3. /\ Head(todo) = RestartSteps[k + 1]
        /\ Done /\ k < 13 => Reached(RestartSteps, k + 1)'
        /\ Done /\ k = 13 => todo' = <<>>
    <3>1. RestartSteps \in Seq(StepNames) /\ Len(RestartSteps) = 13 + 1 /\ 13 \in Nat
      BY RestartNames
    <3> QED BY <2>2, <3>1, Advance
  <2>4. Done /\ i < 8 => Reached(RestartSteps, (i + 1) + 5)'
    <3>1. k + 1 = (i + 1) + 5 /\ (i < 8 => k < 13)
      BY <2>1
    <3>2. Reached(RestartSteps, k + 1)' <=>
            k + 1 \in 0 .. (Len(RestartSteps) - 1) /\ todo' = Rest(RestartSteps, k + 1)
      BY DEF Reached, Rest
    <3>3. Reached(RestartSteps, (i + 1) + 5)' <=>
            (i + 1) + 5 \in 0 .. (Len(RestartSteps) - 1) /\ todo' = Rest(RestartSteps, (i + 1) + 5)
      BY DEF Reached, Rest
    <3> QED BY <2>3, <3>1, <3>2, <3>3
  <2>5. k + 1 = (i + 1) + 5 /\ i + 1 \in 1..9 /\ (i = 8 => k = 13)
    BY <2>1
  <2>6. Head(todo) = StartSteps[i + 1]
    BY <2>3, <2>5, RestartNames
  <2>7. Lost \/ (Done /\ (i < 8 => Starting(i + 1)') /\ (i = 8 => Ready'))
    BY <1>6, <2>6, StartStep
  <2>8. i < 8 => i + 1 \in 0..8
    OBVIOUS
  <2>9. ~Lost /\ i < 8 => Phase'
    BY <2>4, <2>7, <2>8 DEF Phase
  <2>10. ~Lost /\ i = 8 => Phase'
    BY <2>3, <2>5, <2>7 DEF Phase
  <2> QED BY <1>1, <2>7, <2>9, <2>10
<1>7. ASSUME NEW i \in 0..4, Reached(ClearProd, i), Clearing("U", i)
      PROVE  Phase' /\ (Done \/ Lost)
  <2>1. /\ Head(todo) = ClearProd[i + 1]
        /\ Done /\ i < 4 => Reached(ClearProd, i + 1)'
        /\ Done /\ i = 4 => todo' = <<>>
    BY <1>7, ClearProdNames, Advance, 4 + 1 = 5, 4 \in Nat
  <2>2. Done /\ (i < 4 => Clearing("U", i + 1)') /\ (i = 4 => Ready')
    BY <1>7, <2>1, ClearProdStep
  <2>3. i < 4 => i + 1 \in 0..4
    OBVIOUS
  <2> QED BY <2>1, <2>2, <2>3 DEF Phase
<1>8. ASSUME NEW i \in 0..4, Reached(ClearCons, i), Clearing("M", i)
      PROVE  Phase' /\ (Done \/ Lost)
  <2>1. /\ Head(todo) = ClearCons[i + 1]
        /\ Done /\ i < 4 => Reached(ClearCons, i + 1)'
        /\ Done /\ i = 4 => todo' = <<>>
    BY <1>8, ClearConsNames, Advance, 4 + 1 = 5, 4 \in Nat
  <2>2. Done /\ (i < 4 => Clearing("M", i + 1)') /\ (i = 4 => Ready')
    BY <1>8, <2>1, ClearConsStep
  <2>3. i < 4 => i + 1 \in 0..4
    OBVIOUS
  <2> QED BY <2>1, <2>2, <2>3 DEF Phase
<1>9. ASSUME Reached(ClearOther, 0), Ready
      PROVE  Phase' /\ (Done \/ Lost)
  <2>1. Head(todo) = ClearOther[1] /\ (Done => todo' = <<>>)
    BY <1>9, ClearOtherNames, Advance, 0 + 1 = 1, 0 \in Nat, 0 \in 0..0
  <2>2. Done /\ Ready'
    BY <1>9, <2>1, ClearOtherStep
  <2> QED BY <2>1, <2>2 DEF Phase
<1> QED BY <1>2, <1>3, <1>4, <1>5, <1>6, <1>7, <1>8, <1>9 DEF Phase

-----------------------------------------------------------------------------
(* The other conjuncts, and the other parties. *)

\* A callback keeps the types, and a channel that does not run empty.
LEMMA StepTypes ==
  ASSUME AppTypeOK, HeldInv, Callback, todo # <<>>
  PROVE  AppTypeOK' /\ HeldInv'
<1> USE DEF AppTypeOK, HeldInv, Endpoints, Channels, sdkVars, Step, Succeeds, Fails,
       UncheckedCalls
<1>1. Tail(todo) \in Seq(StepNames)
  BY TailAt
<1>2. todo' \in {todo, Tail(todo)}
  BY DEF Callback, GetSpeed, Step, SetEpConfig, ChannelCreate, FlushEps, ChannelSetXfer, Activate,
     Deactivate, ChannelDestroy, SetEpNak, ChannelReset, SetXferAgain, AckSetup, Done, Die
<1>3. todo' \in Seq(StepNames)
  BY <1>1, <1>2
<1>4. ASSUME NEW name, NEW e \in Endpoints, NEW on \in BOOLEAN, SetEpConfig(name, e, on)
      PROVE  AppTypeOK' /\ HeldInv'
  BY <1>3, <1>4 DEF SetEpConfig
<1>5. ASSUME NEW name, NEW c \in Channels, ChannelCreate(name, c)
      PROVE  AppTypeOK' /\ HeldInv'
  <2>1. DmaBufSize(speed) \in Int
    BY DEF DmaBufSize, PacketSize
  <2> QED BY <1>3, <1>5, <2>1 DEF ChannelCreate
<1>6. FlushEps \/ GetSpeed => AppTypeOK' /\ HeldInv'
  BY <1>3 DEF FlushEps, GetSpeed, devVars
<1>7. ASSUME NEW name, NEW c \in Channels, ChannelSetXfer(name, c)
      PROVE  AppTypeOK' /\ HeldInv'
  BY <1>3, <1>7 DEF ChannelSetXfer
<1>8. Activate \/ Deactivate => AppTypeOK' /\ HeldInv'
  BY <1>3 DEF Activate, Deactivate
<1>9. ASSUME NEW name, NEW c \in Channels, ChannelDestroy(name, c)
      PROVE  AppTypeOK' /\ HeldInv'
  <2>1. Succeeds("destroy", c) \/ Fails("destroy", c)
    BY <1>9 DEF ChannelDestroy
  <2>2. unnoticed' \in [Channels -> SUBSET UncheckedCalls]
    BY <2>1
  <2>3. /\ chan' \in [Channels -> {"none", "idle", "running"}]
        /\ held' \subseteq Channels /\ HeldInv'
    BY <1>9 DEF ChannelDestroy
  <2>4. UNCHANGED <<speed, sdkVars, glIsApplnActive, ep, nak, bufSize, wasReset>>
    BY <1>9 DEF ChannelDestroy
  <2> QED BY <1>3, <2>2, <2>3, <2>4
<1>10. ASSUME NEW name, NEW on \in BOOLEAN, SetEpNak(name, on)
       PROVE  AppTypeOK' /\ HeldInv'
  BY <1>3, <1>10 DEF SetEpNak
<1>11. ASSUME NEW name, NEW c \in Channels, ChannelReset(name, c)
       PROVE  AppTypeOK' /\ HeldInv'
  <2>1. Succeeds("reset", c) \/ Fails("reset", c)
    BY <1>11 DEF ChannelReset
  <2>2. unnoticed' \in [Channels -> SUBSET UncheckedCalls]
    BY <2>1
  <2>3. /\ chan' \in [Channels -> {"none", "idle", "running"}]
        /\ held' \subseteq Channels /\ wasReset' \subseteq Channels /\ HeldInv'
    BY <1>11 DEF ChannelReset
  <2>4. UNCHANGED <<speed, sdkVars, glIsApplnActive, ep, nak, bufSize>>
    BY <1>11 DEF ChannelReset
  <2> QED BY <1>3, <2>2, <2>3, <2>4
<1>12. ASSUME NEW name, NEW c \in Channels, SetXferAgain(name, c)
       PROVE  AppTypeOK' /\ HeldInv'
  BY <1>3, <1>12 DEF SetXferAgain
<1>13. AckSetup => AppTypeOK' /\ HeldInv'
  BY <1>3 DEF AckSetup, devVars
<1>14. "U" \in Channels /\ "M" \in Channels /\ "prod" \in Endpoints /\ "cons" \in Endpoints
  OBVIOUS
<1> QED
  BY <1>4, <1>5, <1>6, <1>7, <1>8, <1>9, <1>10, <1>11, <1>12, <1>13, <1>14 DEF Callback

\* A callback that has not begun is not finished, and it begins with all its steps.
LEMMA Begins ==
  ASSUME NEW s \in Seq(StepNames), s # <<>>
  PROVE  /\ todo' = s => Reached(s, 0)'
         /\ todo = <<>> => \A i \in Int : ~ Reached(s, i)
<1>1. Len(s) \in Nat /\ Len(s) # 0
  BY NoStepsLeft
<1>2. 0 \in 0 .. (Len(s) - 1) /\ Rest(s, 0) = s
  BY <1>1, RestStep
<1>3. Reached(s, 0)' <=> 0 \in 0 .. (Len(s) - 1) /\ todo' = Rest(s, 0)
  BY DEF Reached, Rest
<1>4. ASSUME todo = <<>>, NEW i \in Int, Reached(s, i)
      PROVE  FALSE
  BY <1>4, RestStep DEF Reached
<1> QED BY <1>2, <1>3, <1>4

\* Between callbacks the phase is Ready or Off.
LEMMA PhaseAtRest ==
  ASSUME Phase, todo = <<>>
  PROVE  Ready \/ Off
<1>1. \A i \in Int : ~Reached(StopSteps, i) /\ ~Reached(StartSteps, i)
  BY Begins, StopNames, StartNames
<1>2. \A i \in Int : ~Reached(RestartSteps, i) /\ ~Reached(ClearOther, i)
  BY Begins, RestartNames, ClearOtherNames
<1>3. \A i \in Int : ~Reached(ClearProd, i) /\ ~Reached(ClearCons, i)
  BY Begins, ClearProdNames, ClearConsNames
<1>4. \A i \in 0..8 : i \in Int /\ i + 5 \in Int
  OBVIOUS
<1>5. (\A i \in 0..4 : i \in Int) /\ 0 \in Int
  OBVIOUS
<1> QED BY <1>1, <1>2, <1>3, <1>4, <1>5 DEF Phase

\* An event finds the last callback finished and begins one.
LEMMA EventStep ==
  ASSUME AppInv, Event
  PROVE  AppInv'
<1> USE DEF AppInv, AppTypeOK, HeldInv, LostForAReason, Endpoints, Channels
<1>1. Connected /\ todo = <<>>
  BY DEF Event, SetConf, ResetOrDisconnect, FunctionSuspend, ClearHalt, CallbackCanRun
<1>2. Ready \/ Off
  BY <1>1, PhaseAtRest
<1>3. <<>> \in Seq(StepNames)
  OBVIOUS
<1>4. /\ todo' = StopSteps => Reached(StopSteps, 0)'
      /\ todo' = StartSteps => Reached(StartSteps, 0)'
  BY Begins, StopNames, StartNames
<1>5. /\ todo' = RestartSteps => Reached(RestartSteps, 0)'
      /\ todo' = ClearOther => Reached(ClearOther, 0)'
  BY Begins, RestartNames, ClearOtherNames
<1>6. /\ todo' = ClearProd => Reached(ClearProd, 0)'
      /\ todo' = ClearCons => Reached(ClearCons, 0)'
  BY Begins, ClearProdNames, ClearConsNames
<1>7. SetConf => AppInv'
  <2> SUFFICES ASSUME SetConf PROVE AppInv'
    OBVIOUS
  <2>1. UNCHANGED <<appThread, halted, speed, setup, mayFail, worksOnM>>
    BY DEF SetConf, sdkVars
  <2>2. UNCHANGED <<glIsApplnActive, ep, nak, chan, bufSize, held, wasReset, unnoticed>>
    BY DEF SetConf, devVars
  <2>3. CASE Ready
    <3>1. todo' = RestartSteps /\ todo' \in Seq(StepNames)
      BY <2>3, RestartNames DEF SetConf, Ready, RestartSteps
    <3>2. Stopping(0)'
      BY <2>2, <2>3 DEF Ready, Stopping
    <3>3. Phase'
      BY <1>5, <3>1, <3>2, 0 \in 0..4 DEF Phase
    <3> QED BY <2>1, <2>2, <3>1, <3>3
  <2>4. CASE Off
    <3>1. todo' = StartSteps /\ todo' \in Seq(StepNames)
      <4>1. todo' = <<>> \o StartSteps
        BY <2>4 DEF SetConf, Off
      <4> QED BY <4>1, StartNames
    <3>2. Starting(0)'
      BY <2>2, <2>1, <2>4 DEF Off, Starting, Gone, CanFail, Works
    <3>3. Phase'
      BY <1>4, <3>1, <3>2, 0 \in 0..8 DEF Phase
    <3> QED BY <2>1, <2>2, <3>1, <3>3
  <2> QED BY <1>2, <2>3, <2>4
<1>8. ResetOrDisconnect => AppInv'
  <2> SUFFICES ASSUME ResetOrDisconnect PROVE AppInv'
    OBVIOUS
  <2>1. /\ UNCHANGED <<appThread, halted, setup, mayFail, worksOnM>>
        /\ speed' \in DOMAIN PacketSize
    BY DEF ResetOrDisconnect, sdkVars
  <2>2. UNCHANGED <<glIsApplnActive, ep, nak, chan, bufSize, held, wasReset, unnoticed>>
    BY DEF ResetOrDisconnect, devVars
  <2>3. CASE Ready
    <3>1. todo' = StopSteps /\ todo' \in Seq(StepNames)
      BY <2>3, StopNames DEF ResetOrDisconnect, Ready
    <3>2. Stopping(0)'
      BY <2>2, <2>3 DEF Ready, Stopping
    <3>3. Phase'
      BY <1>4, <3>1, <3>2, 0 \in 0..4 DEF Phase
    <3> QED BY <2>1, <2>2, <3>1, <3>3
  <2>4. CASE Off
    <3>1. todo' = <<>>
      BY <2>4 DEF ResetOrDisconnect, Off
    <3>2. Off'
      BY <2>1, <2>2, <2>4 DEF Off, Gone, CanFail, Works
    <3>3. Phase'
      BY <3>1, <3>2 DEF Phase
    <3> QED BY <1>3, <2>1, <2>2, <3>1, <3>3
  <2> QED BY <1>2, <2>3, <2>4
<1>9. FunctionSuspend => AppInv'
  <2> SUFFICES ASSUME FunctionSuspend PROVE AppInv'
    OBVIOUS
  <2>1. /\ UNCHANGED <<appThread, todo, halted, speed, mayFail, worksOnM>>
        /\ UNCHANGED <<glIsApplnActive, ep, nak, chan, bufSize, held, wasReset, unnoticed>>
    BY DEF FunctionSuspend, sdkVars, devVars
  <2>2. Phase'
    BY <2>1, PhaseKept DEF devVars, sdkVars
  <2> QED BY <2>1, <2>2
<1>10. ASSUME NEW e, ClearHalt(e)
       PROVE  AppInv'
  <2>1. /\ UNCHANGED <<appThread, halted, speed, mayFail, worksOnM>>
        /\ UNCHANGED <<glIsApplnActive, ep, nak, chan, bufSize, held, unnoticed>>
    BY <1>10 DEF ClearHalt, sdkVars
  <2>2. CASE Ready
    <3>1. /\ wasReset' = {}
          /\ todo' = ClearProd \/ todo' = ClearCons \/ todo' = ClearOther
      BY <1>10, <2>2 DEF ClearHalt, Ready
    <3>2. todo' \in Seq(StepNames)
      BY <3>1, ClearProdNames, ClearConsNames, ClearOtherNames
    <3>3. Clearing("U", 0)' /\ Clearing("M", 0)' /\ Ready'
      BY <2>1, <2>2, <3>1 DEF Ready, Clearing, Sized, Alive
    <3>4. Phase'
      BY <1>5, <1>6, <3>1, <3>3, 0 \in 0..4 DEF Phase
    <3> QED BY <2>1, <3>1, <3>2, <3>4
  <2>3. CASE Off
    <3>1. UNCHANGED <<todo, wasReset>>
      BY <1>10, <2>3 DEF ClearHalt, Off
    <3>2. Phase'
      BY <2>1, <3>1, PhaseKept DEF devVars, sdkVars
    <3> QED BY <2>1, <3>1, <3>2
  <2> QED BY <1>2, <2>2, <2>3
<1> QED BY <1>7, <1>8, <1>9, <1>10 DEF Event

\* The traffic fills and empties channels that run, and none whose endpoint is held off.
LEMMA TrafficStep ==
  ASSUME AppInv, Traffic
  PROVE  AppInv'
<1>1. PICK c \in Channels : DataIn(c) \/ DataOut(c)
  BY DEF Traffic
<1>2. /\ UNCHANGED <<appThread, halted, todo, speed, mayFail, worksOnM>>
      /\ UNCHANGED <<glIsApplnActive, ep, nak, chan, bufSize, wasReset, unnoticed>>
  BY <1>1 DEF DataIn, DataOut, usbVars, sdkVars
<1>3. AppTypeOK' /\ HeldInv' /\ LostForAReason'
  BY <1>1, <1>2 DEF AppInv, AppTypeOK, HeldInv, LostForAReason, DataIn, DataOut
<1>4. "U" \notin held /\ nak = {"prod"} => "U" \notin held'
  BY <1>1 DEF DataIn, DataOut
<1>5. /\ Ready => Ready'
      /\ Off => Off'
      /\ \A i \in 0..4 : Stopping(i) => Stopping(i)'
      /\ \A i \in 0..8 : Starting(i) => Starting(i)'
  BY <1>2 DEF Ready, Off, Stopping, Starting, Sized, Alive, Gone, CanFail, Works
<1>6. \A i \in 0..4 : /\ Clearing("U", i) => Clearing("U", i)'
                      /\ Clearing("M", i) => Clearing("M", i)'
  BY <1>2, <1>4 DEF Clearing, Sized, Alive
<1>7. \A s, i : Reached(s, i) => Reached(s, i)'
  BY <1>2 DEF Reached, Rest
<1>8. Phase'
  BY <1>2, <1>5, <1>6, <1>7 DEF AppInv, Phase
<1> QED BY <1>3, <1>8 DEF AppInv

LEMMA AppInvInit == AppInit => AppInv
<1> SUFFICES ASSUME AppInit PROVE AppInv
  OBVIOUS
<1>1. AppTypeOK
  <2>1. /\ mayFail \in BOOLEAN /\ worksOnM \subseteq UncheckedCalls
        /\ <<>> \in Seq(StepNames)
    BY AppAssumption DEF AppInit
  <2>2. glIsApplnActive \in BOOLEAN
    BY DEF AppInit
  <2> QED BY <2>1, <2>2 DEF AppInit, AppTypeOK, Channels
<1>2. HeldInv /\ LostForAReason
  BY DEF AppInit, HeldInv, LostForAReason
<1>3. Off
  BY DEF AppInit, Off, Channels, Gone
<1>4. Phase
  BY <1>3 DEF AppInit, Phase
<1> QED BY <1>1, <1>2, <1>4 DEF AppInv

LEMMA AppInvNext == AppInv /\ [AppNext]_appVars => AppInv'
<1> SUFFICES ASSUME AppInv, [AppNext]_appVars PROVE AppInv'
  OBVIOUS
<1>1. CASE InitStep
  <2>1. UNCHANGED <<usbVars, devVars>> /\ (mayFail \/ UNCHANGED halted)
    BY <1>1 DEF InitStep
  <2>2. Phase'
    BY <2>1, PhaseKept DEF AppInv, usbVars
  <2>3. AppTypeOK' /\ HeldInv' /\ LostForAReason'
    BY <2>1 DEF AppInv, AppTypeOK, HeldInv, LostForAReason, usbVars, devVars, sdkVars
  <2> QED BY <2>2, <2>3 DEF AppInv
<1>2. CASE Event
  BY <1>2, EventStep
<1>3. CASE Callback
  <2>1. todo # <<>> /\ halted = {} /\ UNCHANGED <<mayFail, worksOnM>>
    BY <1>3, StepOf DEF Callback, GetSpeed, Step, SetEpConfig, ChannelCreate, FlushEps,
       ChannelSetXfer, Activate, Deactivate, ChannelDestroy, SetEpNak, ChannelReset,
       SetXferAgain, AckSetup, Connected, sdkVars
  <2>2. AppTypeOK' /\ HeldInv'
    BY <1>3, <2>1, StepTypes DEF AppInv
  <2>3. Phase' /\ (Done \/ Lost)
    BY <1>3, PhaseStep DEF AppInv
  <2>4. LostForAReason'
    BY <2>1, <2>3 DEF LostForAReason, Lost, Done, devVars
  <2> QED BY <2>2, <2>3, <2>4 DEF AppInv
<1>4. CASE Traffic
  BY <1>4, TrafficStep
<1>5. CASE UNCHANGED appVars
  <2>1. UNCHANGED <<usbVars, devVars, halted>>
    BY <1>5 DEF appVars
  <2>2. Phase'
    BY <2>1, PhaseKept DEF AppInv, usbVars
  <2>3. AppTypeOK' /\ HeldInv' /\ LostForAReason'
    BY <2>1 DEF AppInv, AppTypeOK, HeldInv, LostForAReason, usbVars, devVars, sdkVars
  <2> QED BY <2>2, <2>3 DEF AppInv
<1> QED BY <1>1, <1>2, <1>3, <1>4, <1>5 DEF AppNext, CyFxAppErrorHandler

\* In every reachable state the firmware is between callbacks, ready or off, or in the
\* middle of one with just that done that its steps so far do; whatever the host, the
\* FPGA and the failures of the SDK do.
THEOREM PhaseInvariant == AppSpec => []AppInv
BY AppInvInit, AppInvNext, PTL DEF AppSpec

-----------------------------------------------------------------------------
(* The properties of SlFifoApp. *)

\* An active application between callbacks is ready: both endpoints enabled and let
\* loose, both channels with buffers of DMA_BUF_SIZE packets of the current speed, and
\* both running but for a channel whose last transfer size after a reset was refused
\* unnoticed (cyfxslfifosync.c:279, 304, 458 and 471).  This after any sequence of starts,
\* stops and cleared halts, whichever calls fail, the unchecked ones included.
THEOREM ActiveMeansReadyHolds == AppSpec => []ActiveMeansReady
<1>1. AppInv => ActiveMeansReady
  <2> SUFFICES ASSUME AppInv, glIsApplnActive, todo = <<>>
               PROVE  ActiveMeansReady
    BY DEF ActiveMeansReady, CallbackCanRun
  <2>1. Ready
    BY PhaseAtRest DEF AppInv, Off
  <2> QED BY <2>1 DEF Ready, Sized, Alive, ActiveMeansReady, Channels
<1> QED BY <1>1, PhaseInvariant, PTL

\* A stopped application has left nothing behind but the channels whose destroy failed
\* unnoticed (cyfxslfifosync.c:353-378).
THEOREM StoppedMeansCleanHolds == AppSpec => []StoppedMeansClean
<1>1. AppInv => StoppedMeansClean
  <2> SUFFICES ASSUME AppInv, ~glIsApplnActive, todo = <<>>
               PROVE  /\ ep = {}
                      /\ \A c \in Channels :
                           "destroy" \notin unnoticed[c] => chan[c] = "none" /\ c \notin held
    BY DEF StoppedMeansClean, CallbackCanRun
  <2>1. Off
    BY PhaseAtRest DEF AppInv, Ready
  <2>2. \A c \in Channels : "destroy" \notin unnoticed[c] => chan[c] = "none"
    BY <2>1 DEF Off, Gone, Channels
  <2>3. \A c \in Channels : chan[c] = "none" => c \notin held
    BY DEF AppInv, AppTypeOK, HeldInv
  <2> QED BY <2>1, <2>2, <2>3 DEF Off
<1> QED BY <1>1, PhaseInvariant, PTL

\* When the endpoint that was cleared is let loose again, no request of before is left
\* for the FPGA, although the host goes on sending between any two steps of the
\* callback (cyfxslfifosync.c:450-461), provided that the reset worked.
THEOREM HaltDropsRequestHolds == AppSpec => []HaltDropsRequest
<1>1. AppInv => HaltDropsRequest
  <2> SUFFICES ASSUME AppInv, todo # <<>>, Head(todo) = "unnak", "U" \in wasReset
               PROVE  "U" \notin held
    BY DEF HaltDropsRequest
  <2>1. ~ \E i \in 0..4 : Reached(StopSteps, i) \/ Reached(RestartSteps, i)
    <3> SUFFICES ASSUME NEW i \in 0..4, Reached(StopSteps, i) \/ Reached(RestartSteps, i)
                 PROVE  FALSE
      OBVIOUS
    <3>1. i + 1 \in 1..5 /\ i \in 0 .. (5 - 1) /\ i \in 0 .. (14 - 1)
      OBVIOUS
    <3>2. Head(todo) \in {StopSteps[i + 1], RestartSteps[i + 1]}
      BY <3>1, RestStep, StopNames, RestartNames DEF Reached
    <3>3. Head(todo) = StopSteps[i + 1]
      BY <3>1, <3>2, RestartNames
    <3> QED BY <3>1, <3>3, StopNames
  <2>2. ~ \E i \in 0..8 : Reached(StartSteps, i) \/ Reached(RestartSteps, i + 5)
    <3> SUFFICES ASSUME NEW i \in 0..8, Reached(StartSteps, i) \/ Reached(RestartSteps, i + 5)
                 PROVE  FALSE
      OBVIOUS
    <3>1. /\ i + 1 \in 1..9 /\ (i + 5) + 1 = (i + 1) + 5
          /\ i \in 0 .. (9 - 1) /\ i + 5 \in 0 .. (14 - 1)
      OBVIOUS
    <3>2. Head(todo) \in {StartSteps[i + 1], RestartSteps[(i + 5) + 1]}
      BY <3>1, RestStep, StartNames, RestartNames DEF Reached
    <3>3. Head(todo) = StartSteps[i + 1]
      BY <3>1, <3>2, RestartNames
    <3> QED BY <3>1, <3>3, StartNames
  <2>3. ASSUME NEW i \in 0..4, Reached(ClearProd, i), Clearing("U", i)
        PROVE  "U" \notin held
    <3>1. Head(todo) = ClearProd[i + 1]
      BY <2>3, RestStep, ClearProdNames, 0..4 = 0 .. (5 - 1) DEF Reached
    <3>2. i = 3
      BY <3>1, ClearProdNames
    <3> QED BY <2>3, <3>2 DEF Clearing
  <2>4. ASSUME NEW i \in 0..4, Reached(ClearCons, i), Clearing("M", i)
        PROVE  FALSE
    <3>1. Head(todo) = ClearCons[i + 1]
      BY <2>4, RestStep, ClearConsNames, 0..4 = 0 .. (5 - 1) DEF Reached
    <3>2. i = 3
      BY <3>1, ClearConsNames
    <3> QED BY <2>4, <3>2 DEF Clearing, Channels
  <2>5. ~ Reached(ClearOther, 0)
    <3>1. Reached(ClearOther, 0) => Head(todo) = ClearOther[1]
      BY RestStep, ClearOtherNames, 0 \in 0 .. (1 - 1), 0 + 1 = 1 DEF Reached
    <3> QED BY <3>1, ClearOtherNames
  <2> QED BY <2>1, <2>2, <2>3, <2>4, <2>5 DEF AppInv, Phase
<1> QED BY <1>1, PhaseInvariant, PTL

\* When no call fails for reasons from outside, the thread is lost for one reason only:
\* the single-channel destroy does not work on the many-to-one channel, which survived a stop and could not be created again (cyfxslfifosync.c:320-328 and 372).
THEOREM LostForAReasonHolds == AppSpec => []LostForAReason
<1>1. AppInv => LostForAReason
  BY DEF AppInv
<1> QED BY <1>1, PhaseInvariant, PTL
=============================================================================
