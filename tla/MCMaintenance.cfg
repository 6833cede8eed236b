\* The maintenance gateway on its own: the alarm may cut a submit between the
\* launch of its worker and the record of it.
SPECIFICATION Spec
CONSTANT Requests = {1, 2, 3}
INVARIANT OneActiveWorker
CHECK_DEADLOCK FALSE
