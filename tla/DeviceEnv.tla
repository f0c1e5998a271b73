----------------------------- MODULE DeviceEnv -----------------------------
(***************************************************************************)
(* The environment of the API (api/src/cfrontend.cpp): g_env with the list *)
(* of open devices, their number and the flag that the options have been   *)
(* read, and kvs_open_device, kvs_close_device, kvs_get_device_info and    *)
(* the calls like it, made by several threads.                             *)
(*                                                                         *)
(* kvs_open_device and kvs_close_device run under env_mutex, which is not  *)
(* recursive; the calls that only ask a device read open_devices without   *)
(* it.  The last close calls _kvs_exit_env, which closes what is left in   *)
(* the list through kvs_close_device, and so locks env_mutex again.        *)
(***************************************************************************)
EXTENDS Integers, FiniteSets

CONSTANTS
    Threads, Paths,
    Handles,   \* the addresses operator new may return for a device handle
    Careful,   \* TRUE: no thread closes a handle that another thread is using
    None       \* no handle

ASSUME EnvAssumption == None \notin Handles \cup Paths /\ Careful \in BOOLEAN /\ IsFiniteSet(Handles)

VARIABLES
    initialized,  \* g_env.initialized
    devs,         \* g_env.open_devices
    num,          \* g_env.opened_device_num
    path,         \* path[h]: dev_path of the handle at address h, None if freed
    drivers,      \* the handles whose driver is initialised and not yet deleted
    stage,        \* stage[t]: what thread t is doing
    using,        \* using[t]: the handle it is doing it with
    ret           \* ret[t]: what its last call returned

globals == <<initialized, devs, num, path, drivers>>
envVars == <<globals, stage, using, ret>>

EnvInit == /\ initialized = FALSE /\ devs = {} /\ num = 0
           /\ path = [h \in Handles |-> None] /\ drivers = {}
           /\ stage = [t \in Threads |-> "idle"] /\ using = [t \in Threads |-> None]
           /\ ret = [t \in Threads |-> "none"]

EndCall(t, code) == /\ ret' = [ret EXCEPT ![t] = code]
                    /\ stage' = [stage EXCEPT ![t] = "idle"]
                    /\ using' = [using EXCEPT ![t] = None]

\* env_mutex is free unless a thread waits for it while it holds it.
MutexFree == \A t \in Threads : stage[t] # "stuck"

Freed(h) == path[h] = None

\* init_env: the options are read, with default, environment and file in turn.
InitEnv(ok) == initialized' = (initialized \/ ok)

(***************************************************************************)
(* kvs_open_device.                                                        *)
(***************************************************************************)
\* Mutant: two handles of one device.
PathOpenedNever(p) == FALSE

\* _device_opened with a path.
PathOpened(p) == \E h \in devs : path[h] = p

\* The options cannot be read, or the URI is NULL, empty or too long.
OpenRefused(t) ==
    /\ stage[t] = "idle" /\ MutexFree
    /\ \/ ~initialized /\ UNCHANGED initialized /\ EndCall(t, "option_invalid")
       \/ InitEnv(TRUE) /\ EndCall(t, "param_invalid")
    /\ UNCHANGED <<devs, num, path, drivers>>

OpenTwice(t, p) ==
    /\ stage[t] = "idle" /\ MutexFree /\ PathOpened(p)
    /\ InitEnv(TRUE)
    /\ EndCall(t, "sys_io")
    /\ UNCHANGED <<devs, num, path, drivers>>

\* Mutant: the number of open devices is not counted.
OpenUncounted(t, p, h) ==
    /\ stage[t] = "idle" /\ MutexFree /\ ~PathOpened(p) /\ Freed(h)
    /\ InitEnv(TRUE)
    /\ path' = [path EXCEPT ![h] = p]
    /\ devs' = devs \cup {h} /\ drivers' = drivers \cup {h} /\ UNCHANGED num
    /\ EndCall(t, "success")

\* The driver is initialised, the handle listed and counted.
OpenDevice(t, p, h) ==
    /\ stage[t] = "idle" /\ MutexFree /\ ~PathOpened(p) /\ Freed(h)
    /\ InitEnv(TRUE)
    /\ path' = [path EXCEPT ![h] = p]
    /\ devs' = devs \cup {h} /\ drivers' = drivers \cup {h} /\ num' = num + 1
    /\ EndCall(t, "success")

\* driver->init fails: the handle is deleted.
OpenFails(t, p) ==
    /\ stage[t] = "idle" /\ MutexFree /\ ~PathOpened(p)
    /\ InitEnv(TRUE)
    /\ EndCall(t, "init_failed")
    /\ UNCHANGED <<devs, num, path, drivers>>

\* No memory for the meta data key space: the handle is taken off the list again,
\* env_mutex released and kvs_close_device called.
OpenNoKeySpace(t, p, h) ==
    /\ stage[t] = "idle" /\ MutexFree /\ ~PathOpened(p) /\ Freed(h)
    /\ InitEnv(TRUE)
    /\ path' = [path EXCEPT ![h] = p]
    /\ drivers' = drivers \cup {h}
    /\ stage' = [stage EXCEPT ![t] = "undo"] /\ using' = [using EXCEPT ![t] = h]
    /\ UNCHANGED <<devs, num, ret>>

\* That close finds the handle not opened.
Undo(t) ==
    /\ stage[t] = "undo" /\ MutexFree
    /\ using[t] \notin devs
    /\ EndCall(t, "sys_io")
    /\ UNCHANGED globals

(***************************************************************************)
(* kvs_close_device.                                                       *)
(***************************************************************************)
InUse(h) == \E t \in Threads : using[t] = h

\* The driver and the handle are deleted.  The last close ends the environment:
\* _kvs_exit_env locks env_mutex again for each device still in the list.
CloseDevice(t, h) ==
    /\ stage[t] = "idle" /\ MutexFree /\ h \in devs /\ (Careful => ~InUse(h))
    /\ path' = [path EXCEPT ![h] = None]
    /\ devs' = devs \ {h} /\ drivers' = drivers \ {h} /\ num' = num - 1
    /\ initialized' = (initialized /\ num' # 0)
    /\ IF num' = 0 /\ devs' # {}
       THEN /\ stage' = [stage EXCEPT ![t] = "stuck"]
            /\ using' = [using EXCEPT ![t] = h] /\ UNCHANGED ret
       ELSE EndCall(t, "success")

CloseUnopened(t, h) ==
    /\ stage[t] = "idle" /\ MutexFree /\ h \notin devs
    /\ EndCall(t, "dev_not_opened")
    /\ UNCHANGED globals

(***************************************************************************)
(* kvs_get_device_info, kvs_get_device_utilization, kvs_get_device_capacity *)
(***************************************************************************)
\* _device_opened, without env_mutex ...
Ask(t, h) ==
    /\ stage[t] = "idle"
    /\ IF h \in devs
       THEN /\ stage' = [stage EXCEPT ![t] = "ask"] /\ using' = [using EXCEPT ![t] = h]
            /\ UNCHANGED ret
       ELSE EndCall(t, "dev_not_opened")
    /\ UNCHANGED globals

\* ... and then the driver's answer.
Answer(t) ==
    /\ stage[t] = "ask"
    /\ EndCall(t, "success")
    /\ UNCHANGED globals

EnvNext == \E t \in Threads :
    \/ OpenRefused(t) \/ Undo(t) \/ Answer(t)
    \/ \E p \in Paths : OpenTwice(t, p) \/ OpenFails(t, p)
    \/ \E p \in Paths, h \in Handles : OpenDevice(t, p, h) \/ OpenNoKeySpace(t, p, h)
    \/ \E h \in Handles : CloseDevice(t, h) \/ CloseUnopened(t, h) \/ Ask(t, h)

EnvSpec == EnvInit /\ [][EnvNext]_envVars

(***************************************************************************)
(* Properties.                                                             *)
(***************************************************************************)

\* opened_device_num counts open_devices on every path through kvs_open_device
\* and kvs_close_device, those that fail half way included: the last close finds
\* the list empty, and _kvs_exit_env does not lock env_mutex a second time.
CountExact == num = Cardinality(devs) /\ MutexFree

\* A device path is open under at most one handle, and every open handle has its
\* driver and its path.
OnePerPath ==
    /\ \A g, h \in devs : path[g] = path[h] => g = h
    /\ \A h \in devs : h \in drivers /\ ~Freed(h)

============================================================================
