------------------------------ MODULE PluginSet ------------------------------
(***************************************************************************)
(* The plugins of the repository: what the initMe() of each registers, and *)
(* the cameras its discoverer reports.  gstreamer has no discoverer; the   *)
(* one of cms reports what CmsSource models, here its first camera.        *)
(***************************************************************************)
EXTENDS PluginRegistry

Class(n) == [name |-> n, major |-> 1]

dummy == <<Class("dummyDiscoverer"), Class("dummyVideoSource"), Class("dummyOutput")>>
empty ==
  <<Class("EmptyCameraDiscoverer"), Class("EmptyVideoSource"), Class("EmptyResultsOutput")>>
websocket == <<Class("websocketDiscoverer"), Class("websocketInput"), Class("websocketOutput")>>
cms == <<Class("cmsVideoSource"), Class("cmsDiscoverer")>>
gstreamer == <<Class("GStreamerVideoSource")>>

CameraInfo(i, t, c) == [id |-> i, type |-> t, connection |-> c]

dummyCameras ==
  <<CameraInfo("DummyNativePluginCameraId1", "dummyVideoSource",
               "DummyNativePluginCameraConnection1"),
    CameraInfo("DummyNativePluginCameraId1", "dummyVideoSource",
               "DummyNativePluginCameraConnection2")>>
websocketCameras == <<CameraInfo("websocket_plugin", "websocketInput", "127.0.0.1:51234")>>
cmsCameras == <<CameraInfo("typeCamera", "cmsVideoSource", "0")>>

(* What the discoverer of the plugin that load l initialised reports. *)
Cameras(l) ==
  CASE ClassesOf(l) = dummy -> dummyCameras
    [] ClassesOf(l) = websocket -> websocketCameras
    [] ClassesOf(l) = cms -> cmsCameras
    [] OTHER -> <<>>

(***************************************************************************)
(* Properties.                                                             *)
(***************************************************************************)
(* A camera that the discoverer of a loaded plugin reports can be opened:  *)
(* its type names a class, and it is the plugin's own.                     *)
CamerasCanBeOpened ==
  \A l \in Loads : exit[l] =>
    \A i \in 1 .. Len(Cameras(l)) :
      Cameras(l)[i].type \in Registered /\ m_classes[Cameras(l)[i].type] = l
=============================================================================
