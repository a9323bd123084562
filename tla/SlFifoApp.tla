------------------------------ MODULE SlFifoApp ------------------------------
(***************************************************************************)
(* The firmware of the FX3 (fx3/cyfxslfifosync.c): main and the thread     *)
(* initialise the device once and connect it; from then on the USB         *)
(* thread runs one event or setup callback after the other, each a         *)
(* sequence of SDK calls during which the host and the FPGA go on.  A      *)
(* checked call that fails ends in CyFxAppErrorHandler, which never        *)
(* returns; one whose result nobody looks at leaves things as they were.   *)
(*                                                                         *)
(* Channel "U" is glChHandleSlFifoUtoP (endpoint "prod"), channel "M" the  *)
(* many-to-one glChHandleSlFifoPtoU (endpoint "cons").  Destroy, reset and *)
(* the transfer size after a reset go through the functions for single     *)
(* channels, also for "M"; which of these work on a many-to-one handle is  *)
(* up to the SDK.                                                          *)
(***************************************************************************)
EXTENDS Integers, Sequences

CONSTANTS
  Shortages,  \* whether calls may fail, each on its own, for reasons outside this
              \* module: a subset of BOOLEAN, TRUE if they may
  WrongHandle \* the single-channel calls that may work on channel "M":
              \* a set of subsets of UncheckedCalls

\* The calls whose results are not looked at.
UncheckedCalls == {"destroy", "reset", "xfer"}

ASSUME AppAssumption ==
  /\ Shortages \subseteq BOOLEAN /\ Shortages # {}
  /\ WrongHandle \subseteq SUBSET UncheckedCalls /\ WrongHandle # {}

VARIABLES
  appThread,       \* steps of the start-up still to do
  todo,            \* steps of the running callback still to do
  halted,          \* a thread is in the error handler
  speed,           \* the speed the host enumerated the device at
  glIsApplnActive,
  ep,              \* the enabled endpoints
  nak,             \* the endpoints that refuse the host for a while
  chan,            \* state of the two channels
  bufSize,         \* the DMA buffer size they were created with
  held,            \* the channels that hold data
  wasReset,        \* channels reset by the running callback
  setup,           \* the answer to the last setup request
  unnoticed,       \* for each channel, the unchecked calls that failed when last made
  mayFail,         \* which of Shortages this behaviour is about
  worksOnM         \* which of WrongHandle this SDK does

sdkVars == <<mayFail, worksOnM>>
usbVars == <<todo, speed, setup, sdkVars>>
devVars == <<glIsApplnActive, ep, nak, chan, bufSize, held, wasReset, unnoticed>>
appVars == <<appThread, halted, usbVars, devVars>>

Channels  == {"U", "M"}
Endpoints == {"prod", "cons"}
EndpointOf(c) == IF c = "U" THEN "prod" ELSE "cons"
PacketSize == [full |-> 64, high |-> 512, super |-> 1024]

\* DMA_BUF_SIZE packets, for both channels.
DmaBufSize(s) == 16 * PacketSize[s]

\* main, then CyFxApplicationDefine, then the application thread.
BootSteps  == <<"deviceInit", "cacheControl", "ioMatrix", "threadCreate">>
DebugSteps == <<"uartInit", "uartConfig", "uartXfer", "debugInit">>
InitSteps  == <<"pib", "gpifLoad", "gpifStart", "gpio", "gpio59", "usbStart",
                "descriptors", "connect">>
StartSteps == <<"speed", "enableProd", "enableCons", "createU", "createM", "flush",
                "xferU", "xferM", "activate">>

\* Mutants: only one of the channels is destroyed.
StopSteps_ManyOnly   == <<"deactivate", "destroyM", "disableProd", "disableCons">>
StopSteps_OneChannel == <<"deactivate", "destroyU", "disableProd", "disableCons">>

StopSteps == <<"deactivate", "destroyU", "destroyM", "disableProd", "disableCons">>

\* Mutants: the transfer is not set up again; the host is not held off.
ClearProd_NoXfer == <<"nak", "resetU", "unnak", "unstall">>
ClearProd_NoNak  == <<"resetU", "xferUagain", "unnak", "unstall">>

ClearProd == <<"nak", "resetU", "xferUagain", "unnak", "unstall">>
ClearCons  == <<"nak", "resetM", "xferMagain", "unnak", "unstall">>
ClearOther == <<"unstall">>

Connected == appThread = <<>> /\ halted = {}
CallbackCanRun == Connected /\ todo = <<>>

-----------------------------------------------------------------------------
(* Start-up: main, and the application thread it leads to. *)

\* Every call is checked, and a failure is final: the endless loop of main and of
\* CyFxApplicationDefine, or the error handler.
InitStep ==
  /\ appThread # <<>> /\ "app" \notin halted
  /\ \/ appThread' = Tail(appThread) /\ UNCHANGED halted
     \/ mayFail /\ halted' = halted \cup {"app"} /\ UNCHANGED appThread
  /\ UNCHANGED <<usbVars, devVars>>

-----------------------------------------------------------------------------
(* The callbacks begin. *)

\* Mutant: start without stopping first.
SetConf_NoStop ==
  /\ CallbackCanRun
  /\ todo' = StartSteps
  /\ UNCHANGED <<appThread, halted, speed, setup, sdkVars, devVars>>

SetConf ==
  /\ CallbackCanRun
  /\ todo' = (IF glIsApplnActive THEN StopSteps ELSE <<>>) \o StartSteps
  /\ UNCHANGED <<appThread, halted, speed, setup, sdkVars, devVars>>

\* RESET or DISCONNECT; the host may enumerate at another speed afterwards.
ResetOrDisconnect ==
  /\ CallbackCanRun
  /\ todo' = IF glIsApplnActive THEN StopSteps ELSE <<>>
  /\ speed' \in DOMAIN PacketSize
  /\ UNCHANGED <<appThread, halted, setup, sdkVars, devVars>>

\* CLEAR_FEATURE(ENDPOINT_HALT) for endpoint e; "other" is one of neither channel.
ClearHalt(e) ==
  /\ CallbackCanRun
  /\ IF glIsApplnActive
     THEN /\ todo' = CASE e = "prod" -> ClearProd
                       [] e = "cons" -> ClearCons
                       [] OTHER -> ClearOther
          /\ wasReset' = {} /\ UNCHANGED setup
     ELSE setup' = "unhandled" /\ UNCHANGED <<todo, wasReset>>
  /\ UNCHANGED <<appThread, halted, speed, sdkVars, glIsApplnActive, ep, nak, chan,
                 bufSize, held, unnoticed>>

\* SET_FEATURE or CLEAR_FEATURE(FUNCTION_SUSPEND).
FunctionSuspend ==
  /\ CallbackCanRun
  /\ setup' = IF glIsApplnActive THEN "ack" ELSE "stall"
  /\ UNCHANGED <<appThread, todo, halted, speed, sdkVars, devVars>>

-----------------------------------------------------------------------------
(* The steps of the callbacks. *)

Step(name) ==
  /\ todo # <<>> /\ Head(todo) = name /\ Connected
  /\ UNCHANGED <<appThread, speed, sdkVars>>

Done == todo' = Tail(todo) /\ UNCHANGED halted
Die  == halted' = halted \cup {"usb"} /\ UNCHANGED todo

\* The switch on the speed: there is none when the host has gone meanwhile.
GetSpeed ==
  /\ Step("speed")
  /\ Done \/ (mayFail /\ Die)
  /\ UNCHANGED <<setup, devVars>>

\* A checked call: it has its effect, or it fails and the thread is lost.
SetEpConfig(name, e, on) ==
  /\ Step(name)
  /\ \/ Done /\ ep' = (IF on THEN ep \cup {e} ELSE ep \ {e})
     \/ mayFail /\ Die /\ UNCHANGED ep
  /\ UNCHANGED <<setup, glIsApplnActive, nak, chan, bufSize, held, wasReset, unnoticed>>

\* Creation fails when the sockets are still bound to a channel.
ChannelCreate(name, c) ==
  /\ Step(name)
  /\ \/ /\ chan[c] = "none" /\ Done
        /\ chan' = [chan EXCEPT ![c] = "idle"]
        /\ bufSize' = [bufSize EXCEPT ![c] = DmaBufSize(speed)]
        /\ unnoticed' = [unnoticed EXCEPT ![c] = {}]
     \/ (mayFail \/ chan[c] # "none") /\ Die /\ UNCHANGED <<chan, bufSize, unnoticed>>
  /\ UNCHANGED <<setup, glIsApplnActive, ep, nak, held, wasReset>>

FlushEps ==
  /\ Step("flush") /\ Done
  /\ UNCHANGED <<setup, devVars>>

\* Only a channel that does not run takes a transfer size.
ChannelSetXfer(name, c) ==
  /\ Step(name)
  /\ \/ chan[c] = "idle" /\ Done /\ chan' = [chan EXCEPT ![c] = "running"]
     \/ (mayFail \/ chan[c] # "idle") /\ Die /\ UNCHANGED chan
  /\ UNCHANGED <<setup, glIsApplnActive, ep, nak, bufSize, held, wasReset, unnoticed>>

Activate ==
  /\ Step("activate") /\ Done
  /\ glIsApplnActive' = TRUE
  /\ UNCHANGED <<setup, ep, nak, chan, bufSize, held, wasReset, unnoticed>>

Deactivate ==
  /\ Step("deactivate") /\ Done
  /\ glIsApplnActive' = FALSE
  /\ UNCHANGED <<setup, ep, nak, chan, bufSize, held, wasReset, unnoticed>>

\* The two outcomes of an unchecked call: the callback goes on in both.  A single-channel
\* function works on "U", and on "M" if the SDK lets it.
Works(call, c) == c = "U" \/ call \in worksOnM
Succeeds(call, c) == Works(call, c) /\ unnoticed' = [unnoticed EXCEPT ![c] = @ \ {call}]

CanFail(call, c) == mayFail \/ ~Works(call, c)
Fails(call, c) == unnoticed' = [unnoticed EXCEPT ![c] = @ \cup {call}]

ChannelDestroy(name, c) ==
  /\ Step(name) /\ Done
  /\ \/ /\ Succeeds("destroy", c)
        /\ chan' = [chan EXCEPT ![c] = "none"] /\ held' = held \ {c}
     \/ CanFail("destroy", c) /\ Fails("destroy", c) /\ UNCHANGED <<chan, held>>
  /\ UNCHANGED <<setup, glIsApplnActive, ep, nak, bufSize, wasReset>>

\* Both branches of the CLEAR_FEATURE handler hold off the producer endpoint.
SetEpNak(name, on) ==
  /\ Step(name) /\ Done
  /\ nak' = IF on THEN {"prod"} ELSE {}
  /\ UNCHANGED <<setup, glIsApplnActive, ep, chan, bufSize, held, wasReset, unnoticed>>

ChannelReset(name, c) ==
  /\ Step(name) /\ Done
  /\ \/ /\ Succeeds("reset", c)
        /\ chan' = [chan EXCEPT ![c] = "idle"] /\ held' = held \ {c}
        /\ wasReset' = wasReset \cup {c}
     \/ CanFail("reset", c) /\ Fails("reset", c) /\ UNCHANGED <<chan, held, wasReset>>
  /\ UNCHANGED <<setup, glIsApplnActive, ep, nak, bufSize>>

\* The transfer size after a reset: a channel that was not reset still runs and refuses
\* it, one that was reset and gets none stays idle.
SetXferAgain(name, c) ==
  /\ Step(name) /\ Done
  /\ \/ chan[c] = "idle" /\ Succeeds("xfer", c) /\ chan' = [chan EXCEPT ![c] = "running"]
     \/ (CanFail("xfer", c) \/ chan[c] # "idle") /\ Fails("xfer", c) /\ UNCHANGED chan
  /\ UNCHANGED <<setup, glIsApplnActive, ep, nak, bufSize, held, wasReset>>

AckSetup ==
  /\ Step("unstall") /\ Done
  /\ setup' = "ack"
  /\ UNCHANGED devVars

-----------------------------------------------------------------------------
(* The traffic goes on beside the callbacks. *)

\* The host fills channel U, the FPGA fills channel M.
DataIn(c) ==
  /\ chan[c] = "running" /\ c \notin held
  /\ c = "U" => "prod" \in ep /\ "prod" \notin nak
  /\ held' = held \cup {c}
  /\ UNCHANGED <<appThread, halted, usbVars, glIsApplnActive, ep, nak, chan, bufSize,
                 wasReset, unnoticed>>

DataOut(c) ==
  /\ c \in held /\ chan[c] = "running"
  /\ c = "M" => "cons" \in ep /\ "cons" \notin nak
  /\ held' = held \ {c}
  /\ UNCHANGED <<appThread, halted, usbVars, glIsApplnActive, ep, nak, chan, bufSize,
                 wasReset, unnoticed>>

\* The loop of the error handler.
CyFxAppErrorHandler == halted # {} /\ UNCHANGED appVars

-----------------------------------------------------------------------------
AppInit ==
  /\ appThread = BootSteps \o DebugSteps \o InitSteps /\ todo = <<>> /\ halted = {}
  /\ speed \in DOMAIN PacketSize /\ setup = "none"
  /\ glIsApplnActive = FALSE /\ ep = {} /\ nak = {}
  /\ chan = [c \in Channels |-> "none"] /\ bufSize = [c \in Channels |-> 0]
  /\ held = {} /\ wasReset = {} /\ unnoticed = [c \in Channels |-> {}]
  /\ mayFail \in Shortages /\ worksOnM \in WrongHandle

Event ==
  \/ SetConf \/ ResetOrDisconnect \/ FunctionSuspend
  \/ \E e \in Endpoints \cup {"other"} : ClearHalt(e)

Callback ==
  \/ GetSpeed
  \/ SetEpConfig("enableProd", "prod", TRUE) \/ SetEpConfig("enableCons", "cons", TRUE)
  \/ SetEpConfig("disableProd", "prod", FALSE) \/ SetEpConfig("disableCons", "cons", FALSE)
  \/ ChannelCreate("createU", "U") \/ ChannelCreate("createM", "M")
  \/ FlushEps
  \/ ChannelSetXfer("xferU", "U") \/ ChannelSetXfer("xferM", "M")
  \/ Activate \/ Deactivate
  \/ ChannelDestroy("destroyU", "U") \/ ChannelDestroy("destroyM", "M")
  \/ SetEpNak("nak", TRUE) \/ SetEpNak("unnak", FALSE)
  \/ ChannelReset("resetU", "U") \/ ChannelReset("resetM", "M")
  \/ SetXferAgain("xferUagain", "U") \/ SetXferAgain("xferMagain", "M")
  \/ AckSetup

Traffic == \E c \in Channels : DataIn(c) \/ DataOut(c)

AppNext == InitStep \/ Event \/ Callback \/ Traffic \/ CyFxAppErrorHandler

AppSpec == AppInit /\ [][AppNext]_appVars /\ WF_appVars(Callback)

-----------------------------------------------------------------------------
\* Between callbacks an active application is ready for traffic (cyfxslfifosync.c:348):
\* both endpoints are enabled and not held off, both channels have buffers of
\* DMA_BUF_SIZE packets of the current speed (279 and 304), and both run, but for one
\* case: the last transfer size given after a reset, whose result nobody looks at (458
\* and 471), failed, and the channel stands still.
ActiveMeansReady ==
  glIsApplnActive /\ CallbackCanRun =>
    /\ ep = Endpoints /\ nak = {}
    /\ \A c \in Channels :
         /\ bufSize[c] = DmaBufSize(speed)
         /\ \/ chan[c] = "running"
            \/ chan[c] = "idle" /\ "xfer" \in unnoticed[c]

\* Between callbacks a stopped application has left nothing behind
\* (cyfxslfifosync.c:353-355: the endpoints are disabled and the DMA pipe is
\* destroyed), but for the channels whose destroy failed: its result is not looked at
\* (371 and 372).
StoppedMeansClean ==
  ~glIsApplnActive /\ CallbackCanRun =>
    /\ ep = {}
    /\ \A c \in Channels :
         "destroy" \notin unnoticed[c] => chan[c] = "none" /\ c \notin held

\* Clearing the halt of the OUT endpoint drops what the host had sent: when the
\* endpoint is let loose again no old request is left for the FPGA, because the
\* host was held off before the channel was reset (cyfxslfifosync.c:450-461), also when
\* the transfer size that follows fails.  A reset that fails drops nothing.
HaltDropsRequest ==
  todo # <<>> /\ Head(todo) = "unnak" /\ "U" \in wasReset => "U" \notin held

\* The firmware restarts as often as the host asks: when no call fails for reasons from
\* outside and the single-channel destroy works on the many-to-one channel, every
\* SETCONF runs to its end and leaves an active application.
RestartSucceeds ==
  ~mayFail /\ "destroy" \in worksOnM /\ (\E i \in DOMAIN todo : todo[i] = "activate")
    ~> todo = <<>> /\ glIsApplnActive

\* When no call fails for reasons from outside, and the host is there when it is asked
\* for its speed, the thread is lost for one reason only: a stop left the many-to-one
\* channel behind, and the start after it could not create it again
\* (cyfxslfifosync.c:372 and 320-328).
LostForAReason ==
  halted # {} /\ ~mayFail => "destroy" \notin worksOnM /\ chan["M"] # "none"

\* The DMA buffer size for each channel is "64 for full speed, 512 for high speed and
\* 1024 for super speed" (cyfxslfifosync.c:47-48).
BuffersAsCommented ==
  glIsApplnActive /\ CallbackCanRun => \A c \in Channels : bufSize[c] = PacketSize[speed]
=============================================================================
