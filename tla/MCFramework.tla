----------------------------- MODULE MCFramework -----------------------------
(***************************************************************************)
(* Small instances of the framework's parts.  They share no state here, so *)
(* a behaviour is one of the queue, of the framework's threads, of a       *)
(* dispatcher, of a handleton or of the logger.  The framework's threads   *)
(* are looked at twice: with MaxInputs inputs, neither plug-ins nor the    *)
(* destructor, and with every plug-in of Files, the destructor, MaxEarly   *)
(* inputs for a command of a plug-in and no change of the descriptors.  Of *)
(* the callbacks one is always used as BothEndsAgree asks for, since it    *)
(* says nothing of the others.                                             *)
(***************************************************************************)
EXTENDS WaitableQueue, Framework, Observers

CONSTANT MaxEarly   \* bound on the inputs where there are plug-ins

VARIABLE focus   \* the part that moves

mcVars == <<vars, fwVars, dispatcherVars, handletonVars, loggerVars, focus>>

MCInit ==
  /\ Init /\ FrameworkInit /\ DispatcherInit /\ HandletonInit /\ LoggerInit
  /\ focus \in {"queue", "inputs", "plugins", "dispatcher", "handleton", "logger"}

\* The queue's threads go on for ever; the other parts may come to an end.
MCNext ==
  /\ UNCHANGED focus
  /\ \/ focus = "queue" /\ Next /\ UNCHANGED <<fwVars, dispatcherVars, handletonVars, loggerVars>>
     \/ /\ focus \in {"inputs", "plugins"} /\ FrameworkNext
        /\ focus = "inputs" => subscribed' /\ appeared' = << >>
        /\ focus = "plugins" => /\ Len(sent') <= MaxEarly /\ fdCallbacks' = Fds
                                /\ \A n \in DOMAIN sent' : sent'[n].key \notin FirstKeys
        /\ UNCHANGED <<vars, dispatcherVars, handletonVars, loggerVars>>
     \/ /\ focus = "dispatcher" /\ DispatcherNext /\ mixed' # Callbacks
        /\ UNCHANGED <<vars, fwVars, handletonVars, loggerVars>>
     \/ focus = "handleton" /\ HandletonNext /\ UNCHANGED <<vars, fwVars, dispatcherVars, loggerVars>>
     \/ focus = "logger" /\ LoggerNext /\ UNCHANGED <<vars, fwVars, dispatcherVars, handletonVars>>
     \/ focus # "queue" /\ UNCHANGED mcVars

MCSpec ==
  /\ MCInit /\ [][MCNext]_mcVars
  /\ focus = "queue" => Fairness
  /\ focus \in {"inputs", "plugins"} => FrameworkFairness

\* The parts around the queue keep what they promise: inputs and plug-ins are handled
\* once, dispatchers and callbacks agree, there is one instance, the log is complete.
FrameworkHolds == NothingTwice /\ BothEndsAgree /\ OneInstance /\ LogComplete

=============================================================================
