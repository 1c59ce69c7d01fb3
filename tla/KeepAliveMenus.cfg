SPECIFICATION Spec
CONSTANTS
    POLL_INTERVAL = 1
    HEARTBEAT_INTERVAL = 2
    FULL_FRAME_INTERVAL = 8
    reconnect_timeout = 8
    RETRY_DELAY = 3
    stale_timeout = 8
    RECV_TIMEOUT = 2
    RESYNC_REQUEST_INTERVAL = 2
    Faults = {"skip"}
PROPERTIES
    HeartbeatsThroughMenus
