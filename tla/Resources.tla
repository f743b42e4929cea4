------------------------------ MODULE Resources ------------------------------
(***************************************************************************)
(* The resources of DisastrOS, from whose system calls those of the        *)
(* message queues were derived: open, close and destroy                    *)
(* (disastrOS_resource.c, disastrOS_open_resource.c,                       *)
(* disastrOS_close_resource.c, disastrOS_destroy_resource.c).              *)
(*                                                                         *)
(* Resources and queues share the descriptor pool and the fds of a         *)
(* process.  A descriptor has a pointer for either kind, one of them null, *)
(* and each close follows its own.                                         *)
(***************************************************************************)
EXTENDS MessageQueue

CONSTANTS
  ResourceId,          \* the ids programs use for resources
  NoResource,          \* the null Resource pointer
  ResourceTypes,       \* the types programs give resources
  MAX_NUM_RESOURCES    \* blocks of the resource pool

ASSUME ResourceAssumption ==
  /\ NoResource \notin ResourceId
  /\ MAX_NUM_RESOURCES \in Nat

VARIABLES
  resources_list,   \* ids of the existing resources
  type,             \* per resource, the type it was created with
  resource_ptrs,    \* per resource, the descriptors open on it
  resource          \* per descriptor block, des->resource

resVars == <<resources_list, type, resource_ptrs, resource>>
ioVars  == <<vars, resVars>>

------------------------------------------------------------------------------
(* Helpers of the handlers. *)

\* DSOS_WRITE is 3: it contains the bit of DSOS_CREATE.
Creates(open_mode) == open_mode \in {"DSOS_CREATE", "DSOS_WRITE"}

Excludes(open_mode) == open_mode = "DSOS_EXCL"

\* A call that changes nothing but what its caller gets.
RefuseResource(v) == Refuse(v) /\ UNCHANGED resVars

Resource_alloc(r, t) ==
  /\ resources_list' = resources_list \cup {r}
  /\ type' = [type EXCEPT ![r] = t]

\* The part of open that gives the caller a descriptor of r, if a block is left.
Descriptor_alloc(r) ==
  \/ /\ free_descriptors = {}
     /\ Return(DSOS_ERESOURCENOFD)
     /\ UNCHANGED <<descVars, resource_ptrs, resource>>
  \/ /\ free_descriptors # {}
     /\ LET d == CHOOSE b \in free_descriptors : TRUE
        IN /\ free_descriptors' = free_descriptors \ {d}
           /\ des' = [des EXCEPT ![d] = [fd |-> last_fd[running], mq |-> NoMq]]
           /\ resource' = [resource EXCEPT ![d] = r]
           /\ descriptors' = [descriptors EXCEPT ![running] = @ \cup {d}]
           /\ resource_ptrs' = [resource_ptrs EXCEPT ![r] = @ \cup {d}]
           /\ last_fd' = [last_fd EXCEPT ![running] = @ + 1]
           /\ Return(last_fd[running])
     /\ UNCHANGED descriptors_ptrs

Descriptor_free_lost_BUG(d) == UNCHANGED free_descriptors

Descriptor_free(d) == free_descriptors' = free_descriptors \cup {d}

------------------------------------------------------------------------------
(* The handlers. *)

\* A resource that was created stays when no descriptor is left for its creator.
internal_openResource(r, t, open_mode) ==
  \/ /\ Creates(open_mode)
     /\ \/ r \in resources_list /\ RefuseResource(DSOS_ERESOURCECREATE)
        \/ /\ r \notin resources_list
           /\ Cardinality(resources_list) = MAX_NUM_RESOURCES
           /\ Dies("resources_exhausted")
           /\ UNCHANGED resVars
        \/ /\ r \notin resources_list
           /\ Cardinality(resources_list) < MAX_NUM_RESOURCES
           /\ Resource_alloc(r, t)
           /\ Descriptor_alloc(r)
           /\ UNCHANGED <<schedVars, mq_list, queueVars, poolVars, buf>>
  \/ /\ ~Creates(open_mode)
     /\ \/ /\ r \in resources_list => type[r] # t
           /\ RefuseResource(DSOS_ERESOURCEOPEN)
        \/ /\ r \in resources_list
           /\ type[r] = t
           /\ Excludes(open_mode) /\ resource_ptrs[r] # {}
           /\ RefuseResource(DSOS_ERESOURCENOEXCL)
        \/ /\ r \in resources_list
           /\ type[r] = t
           /\ Excludes(open_mode) => resource_ptrs[r] = {}
           /\ Descriptor_alloc(r)
           /\ UNCHANGED <<schedVars, mq_list, queueVars, poolVars, buf, resources_list,
                          type>>

\* A descriptor is closed as that of a resource, whatever it was opened on.
internal_closeResource(fd) ==
  \/ DescriptorList_byFd(fd) = {} /\ RefuseResource(DSOS_ERESOURCECLOSE)
  \/ \E d \in DescriptorList_byFd(fd) :
       resource[d] = NoResource /\ Dies("null_descriptor") /\ UNCHANGED resVars
  \/ \E d \in DescriptorList_byFd(fd) :
       /\ resource[d] # NoResource
       /\ descriptors' = [descriptors EXCEPT ![running] = @ \ {d}]
       /\ resource_ptrs' = [resource_ptrs EXCEPT ![resource[d]] = @ \ {d}]
       /\ Descriptor_free(d)
       /\ Return(0)
       /\ UNCHANGED <<schedVars, mq_list, queueVars, descriptors_ptrs, des, last_fd,
                      poolVars, buf, resources_list, type, resource>>

internal_destroyResource(r) ==
  \/ r \notin resources_list /\ RefuseResource(DSOS_ERESOURCECLOSE)
  \/ /\ r \in resources_list
     /\ resource_ptrs[r] # {}
     /\ RefuseResource(DSOS_ERESOURCEINUSE)
  \/ /\ r \in resources_list
     /\ resource_ptrs[r] = {}
     /\ resources_list' = resources_list \ {r}
     /\ Return(0)
     /\ UNCHANGED <<schedVars, mq_list, queueVars, descVars, poolVars, buf, type,
                    resource_ptrs, resource>>

NewDescriptorsOfQueues_keeps_BUG == UNCHANGED resVars

\* Descriptor_alloc_mq clears the resource pointer of the block it takes.
NewDescriptorsOfQueues ==
  /\ resource' = [b \in Descriptor |-> IF b \in free_descriptors \ free_descriptors'
                                         THEN NoResource ELSE resource[b]]
  /\ UNCHANGED <<resources_list, type, resource_ptrs>>

------------------------------------------------------------------------------
ResInit ==
  /\ resources_list = {}
  /\ type \in [ResourceId -> {CHOOSE t \in ResourceTypes : TRUE}]
  /\ resource_ptrs = [r \in ResourceId |-> {}]
  /\ resource = [b \in Descriptor |-> NoResource]

OpenResource(r) ==
  /\ Traps
  /\ last_fd[running] < MaxFd
  /\ \E t \in ResourceTypes, mode \in OpenModes : internal_openResource(r, t, mode)

CloseResource == Traps /\ \E fd \in 0..MaxFd : internal_closeResource(fd)

DestroyResource(r) == Traps /\ internal_destroyResource(r)

OpenQueue(q) == Open(q) /\ NewDescriptorsOfQueues

\* A call on queues, or one of resources.
IoCall ==
  \/ \E q \in MqId : \/ OpenQueue(q)
                     \/ (Write(q) \/ Read(q) \/ Destroy(q)) /\ UNCHANGED resVars
  \/ Close /\ UNCHANGED resVars
  \/ \E r \in ResourceId : OpenResource(r) \/ DestroyResource(r)
  \/ CloseResource

IoInit == Init /\ ResInit

IoNext == IoCall \/ ((Schedule \/ Halted) /\ UNCHANGED resVars)

IoSpec == IoInit /\ [][IoNext]_ioVars

------------------------------------------------------------------------------
(* Properties. *)

Held == UNION {descriptors[p] : p \in Pcb}

\* As DescriptorsConsistent says it of queues: the list of a resource has exactly
\* the descriptors that processes have open on it, and each names a resource that
\* exists or a queue, never both, however the blocks moved between the two kinds.
ResourcesConsistent ==
  /\ \A r \in resources_list : resource_ptrs[r] = {b \in Held : resource[b] = r}
  /\ \A b \in Held : \/ des[b].mq # NoMq /\ resource[b] = NoResource
                     \/ des[b].mq = NoMq /\ resource[b] \in resources_list

\* No descriptor block is lost: those not free are on the list of a process.
NoDescriptorLost == Descriptor = Held \cup free_descriptors
==============================================================================
